---- MODULE Spec2Model ----
(***************************************************************************)
(* line-courses: a scraper (scripts/fetchCourses.js) that pages through a  *)
(* course listing, enriches each record from its detail page and writes    *)
(* one JSON snapshot, and a browser client (app.js) that loads the         *)
(* snapshot and filters / sorts / renders it.                              *)
(*                                                                         *)
(* Text is modelled as a sequence of one-character strings, so that trim,  *)
(* toLowerCase, includes, length and replace are computed character by     *)
(* character.  The JavaScript value null of a text-valued field is the     *)
(* one-element sequence Null, whose element is no character.               *)
(* Instants are whole seconds since the epoch (the code's milliseconds     *)
(* divided by 1000; every instant the model feeds in is a whole second).   *)
(***************************************************************************)
EXTENDS Integers, Sequences, FiniteSets, TLC

\* ------------------------------------------------------------------ text

Null == <<"null">>
NaN == -1

IsNull(v) == v = Null

\* !value for a text-valued field: null, undefined and '' are falsy
Falsy(v) == v = Null \/ v = <<>>

\* the characters \s matches (NBSP is U+00A0, which \s matches too)
WhiteSpace == {" ", "NBSP", "TAB"}

UpperCase ==
  <<"A", "B", "C", "D", "E", "F", "G", "H", "I", "J", "K", "L", "M",
    "N", "O", "P", "Q", "R", "S", "T", "U", "V", "W", "X", "Y", "Z">>

LowerCase ==
  <<"a", "b", "c", "d", "e", "f", "g", "h", "i", "j", "k", "l", "m",
    "n", "o", "p", "q", "r", "s", "t", "u", "v", "w", "x", "y", "z">>

\* upper-case letter -> its lower-case letter
LowerTable ==
  [c \in {UpperCase[n] : n \in 1..26} |->
     LowerCase[CHOOSE n \in 1..26 : UpperCase[n] = c]]

LowerOf(c) == IF c \in DOMAIN LowerTable THEN LowerTable[c] ELSE c

toLowerCase(s) == [i \in 1..Len(s) |-> LowerOf(s[i])]

RECURSIVE TrimStart(_)
TrimStart(s) ==
  IF s # <<>> /\ Head(s) \in WhiteSpace THEN TrimStart(Tail(s)) ELSE s

RECURSIVE TrimEnd(_)
TrimEnd(s) ==
  IF s # <<>> /\ s[Len(s)] \in WhiteSpace
    THEN TrimEnd(SubSeq(s, 1, Len(s) - 1))
    ELSE s

trim(s) == TrimEnd(TrimStart(s))

\* String.prototype.includes
includes(s, q) ==
  \E i \in 0..(Len(s) - Len(q)) : SubSeq(s, i + 1, i + Len(q)) = q

\* value.replace(/\//g, '-')
SlashToDash(s) == [i \in 1..Len(s) |-> IF s[i] = "/" THEN "-" ELSE s[i]]

\* .replace(/\u00a0/g, ' '), U+00A0 written NBSP
NbspToSpace(s) == [i \in 1..Len(s) |-> IF s[i] = "NBSP" THEN " " ELSE s[i]]

\* .replace(/\\u00a0/g, ' ')
RECURSIVE CollapseSpace(_)
CollapseSpace(s) ==
  IF s = <<>> THEN <<>>
  ELSE IF Head(s) \in WhiteSpace
    THEN <<" ">> \o CollapseSpace(TrimStart(s))
    ELSE <<Head(s)>> \o CollapseSpace(Tail(s))

cleanText(value) ==
  IF IsNull(value) THEN <<>> ELSE trim(CollapseSpace(NbspToSpace(value)))

\* ------------------------------------------------------------------ dates

Digits == {"0", "1", "2", "3", "4", "5", "6", "7", "8", "9"}

DigitChars == <<"0", "1", "2", "3", "4", "5", "6", "7", "8", "9">>

DigitVal(c) == CHOOSE n \in 0..9 : DigitChars[n + 1] = c

RECURSIVE NumVal(_)
NumVal(s) ==
  IF s = <<>> THEN 0
  ELSE 10 * NumVal(SubSeq(s, 1, Len(s) - 1)) + DigitVal(s[Len(s)])

AllDigits(s) == \A i \in 1..Len(s) : s[i] \in Digits

SECONDS_PER_DAY == 24 * 60 * 60

TAIPEI_OFFSET == 8 * 60 * 60

IsLeap(y) == (y % 4 = 0 /\ y % 100 # 0) \/ y % 400 = 0

DaysInMonth(y, m) ==
  IF m = 2 THEN (IF IsLeap(y) THEN 29 ELSE 28)
  ELSE IF m \in {4, 6, 9, 11} THEN 30 ELSE 31

\* days from 1970-01-01 to the civil date y-m-d (proleptic Gregorian)
DaysFromCivil(y, m, d) ==
  LET yy == IF m <= 2 THEN y - 1 ELSE y
      era == yy \div 400
      yoe == yy - era * 400
      mp == (m + 9) % 12
      doy == (153 * mp + 2) \div 5 + d - 1
      doe == yoe * 365 + yoe \div 4 - yoe \div 100 + doy
  IN era * 146097 + doe - 719468

\* the civil date <<y, m, d>> of a day number
CivilFromDays(z) ==
  LET zz == z + 719468
      era == zz \div 146097
      doe == zz - era * 146097
      yoe == (doe - doe \div 1460 + doe \div 36524 - doe \div 146096) \div 365
      doy == doe - (365 * yoe + yoe \div 4 - yoe \div 100)
      mp == (5 * doy + 2) \div 153
      d == doy - (153 * mp + 2) \div 5 + 1
      m == IF mp < 10 THEN mp + 3 ELSE mp - 9
      y == yoe + era * 400 + (IF m <= 2 THEN 1 ELSE 0)
  IN <<y, m, d>>

\* Date.parse of "YYYY-MM-DDTHH:MM:SS+08:00"; every other text the model
\* feeds in is no date at all and gives NaN
DateParse(iso) ==
  IF /\ Len(iso) = 25
     /\ iso[5] = "-" /\ iso[8] = "-" /\ iso[11] = "T"
     /\ iso[14] = ":" /\ iso[17] = ":"
     /\ SubSeq(iso, 20, 25) = <<"+", "0", "8", ":", "0", "0">>
     /\ AllDigits(SubSeq(iso, 1, 4)) /\ AllDigits(SubSeq(iso, 6, 7))
     /\ AllDigits(SubSeq(iso, 9, 10)) /\ AllDigits(SubSeq(iso, 12, 13))
     /\ AllDigits(SubSeq(iso, 15, 16)) /\ AllDigits(SubSeq(iso, 18, 19))
  THEN
    LET y == NumVal(SubSeq(iso, 1, 4))
        m == NumVal(SubSeq(iso, 6, 7))
        d == NumVal(SubSeq(iso, 9, 10))
        hh == NumVal(SubSeq(iso, 12, 13))
        mi == NumVal(SubSeq(iso, 15, 16))
        ss == NumVal(SubSeq(iso, 18, 19))
    IN IF /\ m \in 1..12 /\ d >= 1 /\ d <= DaysInMonth(y, m)
          /\ hh <= 23 /\ mi <= 59 /\ ss <= 59
       THEN DaysFromCivil(y, m, d) * SECONDS_PER_DAY
            + hh * 3600 + mi * 60 + ss - TAIPEI_OFFSET
       ELSE NaN
  ELSE NaN

Pad(n, width) ==
  [i \in 1..width |-> DigitChars[((n \div (10 ^ (width - i))) % 10) + 1]]

\* Intl.DateTimeFormat('en-CA', {timeZone: 'Asia/Taipei', ...}).format(t)
FormatTaipeiDate(t) ==
  LET c == CivilFromDays((t + TAIPEI_OFFSET) \div SECONDS_PER_DAY)
  IN Pad(c[1], 4) \o <<"-">> \o Pad(c[2], 2) \o <<"-">> \o Pad(c[3], 2)

END_OF_DAY == <<"T", "2", "3", ":", "5", "9", ":", "5", "9", "+", "0", "8", ":", "0", "0">>

\* variant: a bare date is anchored at noon
START_OF_DAY_Noon ==
  <<"T", "1", "2", ":", "0", "0", ":", "0", "0", "+", "0", "8", ":", "0", "0">>

START_OF_DAY == <<"T", "0", "0", ":", "0", "0", ":", "0", "0", "+", "0", "8", ":", "0", "0">>

\* scraper: parseDateValue(value), NaN for null
parseDateValue(value) ==
  IF Falsy(value) THEN NaN
  ELSE LET normalized == trim(SlashToDash(value))
           iso == IF Len(normalized) = 10 THEN normalized \o END_OF_DAY
                  ELSE normalized
       IN DateParse(iso)

\* scraper: isExpired(deadline) at the instant now
isExpired(deadline, now) ==
  LET date == parseDateValue(deadline)
  IN IF date = NaN THEN FALSE ELSE date < now

\* ------------------------------------------------------------------ links

\* BASE_URL up to its last '/', abbreviated: "k/" stands for
\* "https://www.kaa.org.tw/"
BASE_DIR == <<"h", ":", "k", "/">>

IsAbsolute(url) == Len(url) >= 2 /\ SubSeq(url, 1, 2) = <<"h", ":">>

\* new URL(url, BASE_URL).href, null when url is absent or new URL throws
\* (an absolute URL whose host does not parse, here one starting "h:[")
toAbsoluteUrl(url) ==
  IF Falsy(url) THEN Null
  ELSE IF IsAbsolute(url)
    THEN (IF Len(url) >= 3 /\ url[3] = "[" THEN Null ELSE url)
    ELSE BASE_DIR \o url

NoLink == [label |-> Null, url |-> Null]

\* buildLink(label, url, fallbackLabel); NoLink stands for the null result
buildLink(label, url, fallbackLabel) ==
  LET normalizedUrl == toAbsoluteUrl(url)
  IN IF Falsy(normalizedUrl) THEN NoLink
     ELSE [label |-> IF cleanText(label) # <<>> THEN cleanText(label)
                     ELSE fallbackLabel,
           url |-> normalizedUrl]

RECURSIVE DedupeLinks_KeepAll(_, _)
\* variant: the seen set is not consulted
DedupeLinks_KeepAll(candidates, seen) ==
  IF candidates = <<>> THEN <<>>
  ELSE IF Head(candidates) = NoLink THEN DedupeLinks_KeepAll(Tail(candidates), seen)
  ELSE <<Head(candidates)>> \o DedupeLinks_KeepAll(Tail(candidates), seen)

RECURSIVE DedupeLinks_Forgetful(_, _)
\* variant: a url is forgotten once it has made a link drop
DedupeLinks_Forgetful(candidates, seen) ==
  IF candidates = <<>> THEN <<>>
  ELSE LET link == Head(candidates)
       IN IF link = NoLink THEN DedupeLinks_Forgetful(Tail(candidates), seen)
          ELSE IF link.url \in seen
            THEN DedupeLinks_Forgetful(Tail(candidates), seen \ {link.url})
          ELSE <<link>> \o DedupeLinks_Forgetful(Tail(candidates), seen \cup {link.url})

\* the seen-set filter of parseCourses: null candidates dropped, the first
\* link of each url kept
RECURSIVE DedupeLinks(_, _)
DedupeLinks(candidates, seen) ==
  IF candidates = <<>> THEN <<>>
  ELSE LET link == Head(candidates)
       IN IF link = NoLink \/ link.url \in seen
            THEN DedupeLinks(Tail(candidates), seen)
            ELSE <<link>> \o DedupeLinks(Tail(candidates), seen \cup {link.url})

\* ------------------------------------------------------------------ listing pages
\* A page is its sequence of <tr> rows; a row is its sequence of <td> cells;
\* a cell is its text and its anchors, an anchor its text and its href
\* attribute (Null when it has none).

EmptyCell == [text |-> <<>>, anchors |-> <<>>]

Cell(row, i) == IF i <= Len(row) THEN row[i] ELSE EmptyCell

\* $(cell).find('a').attr('href'): the first anchor's href
FirstHref(cell) ==
  IF cell.anchors = <<>> THEN Null ELSE cell.anchors[1].href

LABEL_DETAIL == <<"I">>
LABEL_REGISTER == <<"R">>
LABEL_EXTRA == <<"X">>

RECURSIVE ExtraLinks(_)
ExtraLinks(anchors) ==
  IF anchors = <<>> THEN <<>>
  ELSE LET link == buildLink(Head(anchors).text, Head(anchors).href, LABEL_EXTRA)
       IN (IF link = NoLink THEN <<>> ELSE <<link>>) \o ExtraLinks(Tail(anchors))

NullIfEmpty(text) == IF text = <<>> THEN Null ELSE text

\* the body of rows.each: the record of one row, <<>> when the row is skipped
ParseRow(row) ==
  IF Len(row) = 0 THEN <<>>
  ELSE LET title == cleanText(Cell(row, 1).text)
           dateText == cleanText(Cell(row, 2).text)
           timeText == cleanText(Cell(row, 3).text)
           detailHref == IF FirstHref(Cell(row, 4)) # Null
                           THEN FirstHref(Cell(row, 4))
                           ELSE FirstHref(Cell(row, 1))
           detailLink == buildLink(Cell(row, 4).text, detailHref, LABEL_DETAIL)
           registerLink == buildLink(Cell(row, 5).text, FirstHref(Cell(row, 5)),
                                     LABEL_REGISTER)
           extras == ExtraLinks(Cell(row, 6).anchors)
       IN IF title = <<>> THEN <<>>
          ELSE << [title |-> title,
                   date |-> NullIfEmpty(dateText),
                   deadline |-> NullIfEmpty(dateText),
                   time |-> NullIfEmpty(timeText),
                   links |-> DedupeLinks(<<detailLink, registerLink>> \o extras, {}),
                   detailUrl |-> detailLink.url,
                   registrationUrl |-> registerLink.url] >>

RECURSIVE ParseRows(_)
ParseRows(rows) ==
  IF rows = <<>> THEN <<>> ELSE ParseRow(Head(rows)) \o ParseRows(Tail(rows))

\* variant: the first row is read like the others
parseCourses_WithHeader(html) == ParseRows(html)

\* parseCourses(html): $('table tr').slice(1), then one record per kept row
parseCourses(html) ==
  IF html = <<>> THEN <<>> ELSE ParseRows(Tail(html))

\* ------------------------------------------------------------------ detail pages
\* A detail page is its <td> texts, its anchors in document order, and, for
\* each element whose text matches the related-files label (in document
\* order, ancestors included), the indexes of the anchors that
\* $el.find('a'), or else $el.next().find('a'), selects.  An anchor is its
\* text, its href (Null when absent) and what the two onclick patterns
\* capture from its (or its closest ancestor's) onclick attribute.
\* The characters of the labels are written ZONG XUE FEN (total credits),
\* DANG AN (file), XIA ZAI (download); FWCOLON is the full-width colon.

NoCredits == [isNull |-> TRUE, milli |-> 0]

Credits(milli) == [isNull |-> FALSE, milli |-> milli]

RECURSIVE SkipWhile(_, _, _)
\* the first index >= i of s whose character is not in set (Len(s)+1 if none)
SkipWhile(s, i, set) ==
  IF i <= Len(s) /\ s[i] \in set THEN SkipWhile(s, i + 1, set) ELSE i

\* /ZONG\s*FEN|ZONG\s*XUE FEN/.test(text)
HasCreditLabel(text) ==
  \E i \in 1..Len(text) :
    /\ text[i] = "ZONG"
    /\ LET j == SkipWhile(text, i + 1, WhiteSpace)
       IN \/ (j <= Len(text) /\ text[j] = "FEN")
          \/ (j + 1 <= Len(text) /\ text[j] = "XUE" /\ text[j + 1] = "FEN")

\* where the number starts if /ZONG(?:XUE)?FEN[FWCOLON:\s]*([0-9]+...)/
\* matches at index i, else 0
CreditNumberAt(text, i) ==
  IF i > Len(text) \/ text[i] # "ZONG" THEN 0
  ELSE LET j == IF i + 1 <= Len(text) /\ text[i + 1] = "XUE" THEN i + 2 ELSE i + 1
       IN IF j > Len(text) \/ text[j] # "FEN" THEN 0
          ELSE LET k == SkipWhile(text, j + 1, WhiteSpace \cup {"FWCOLON", ":"})
               IN IF k <= Len(text) /\ text[k] \in Digits THEN k ELSE 0

\* Number.parseFloat of [0-9]+(?:\.[0-9]+)? starting at index k, in thousandths
CreditValueAt(text, k) ==
  LET e == SkipWhile(text, k, Digits)
      whole == NumVal(SubSeq(text, k, e - 1))
      hasFrac == e + 1 <= Len(text) /\ text[e] = "." /\ text[e + 1] \in Digits
      f == IF hasFrac THEN SkipWhile(text, e + 1, Digits) ELSE e + 1
      frac == IF hasFrac THEN SubSeq(text, e + 1, f - 1) ELSE <<>>
      frac3 == SubSeq(frac \o <<"0", "0", "0">>, 1, 3)
  IN Credits(whole * 1000 + NumVal(frac3))

\* lines 192-205: the first matching cell, then the first match in it
ExtractCredits(tds) ==
  LET texts == [n \in 1..Len(tds) |-> trim(CollapseSpace(tds[n]))]
      hits == {n \in 1..Len(texts) : HasCreditLabel(texts[n])}
  IN IF hits = {} THEN NoCredits
     ELSE LET creditContainer == texts[CHOOSE n \in hits : \A m \in hits : n <= m]
              starts == {i \in 1..Len(creditContainer) :
                          CreditNumberAt(creditContainer, i) # 0}
          IN IF starts = {} THEN NoCredits
             ELSE LET i == CHOOSE a \in starts : \A b \in starts : a <= b
                  IN CreditValueAt(creditContainer, CreditNumberAt(creditContainer, i))

\* fileExtPattern = /\.pdf(?:[?#].*)?$/i
fileExtPattern(url) ==
  \E i \in 1..(Len(url) - 3) :
    /\ toLowerCase(SubSeq(url, i, i + 3)) = <<".", "p", "d", "f">>
    /\ (i + 3 = Len(url) \/ url[i + 4] \in {"?", "#"})

RECURSIVE basename(_)
\* path.basename(p): what follows the last '/', trailing '/' dropped
basename(p) ==
  IF p = <<>> THEN <<>>
  ELSE IF p[Len(p)] = "/" THEN basename(SubSeq(p, 1, Len(p) - 1))
  ELSE LET cuts == {i \in 1..Len(p) : p[i] = "/"}
       IN IF cuts = {} THEN p
          ELSE SubSeq(p, (CHOOSE i \in cuts : \A j \in cuts : j <= i) + 1, Len(p))

OrElse(text, fallback) == IF text # <<>> THEN text ELSE fallback

HasUrl(list, url) == \E n \in 1..Len(list) : list[n].url = url

\* lines 214-247: what one anchor adds to attachments in the primary pass
PrimaryPass(anchor) ==
  LET text == cleanText(anchor.text)
      abs == toAbsoluteUrl(anchor.href)
      urlCandidate == IF anchor.onclickHttp # Null THEN anchor.onclickHttp
                      ELSE anchor.onclickQuoted
      abs2 == toAbsoluteUrl(urlCandidate)
  IN IF abs # Null /\ fileExtPattern(abs)
       THEN << [label |-> OrElse(text, basename(abs)), url |-> abs] >>
     ELSE IF abs2 # Null
       THEN << [label |-> OrElse(text, basename(abs2)), url |-> abs2] >>
     ELSE <<>>

RECURSIVE PrimaryAttachments(_)
PrimaryAttachments(anchors) ==
  IF anchors = <<>> THEN <<>>
  ELSE PrimaryPass(Head(anchors)) \o PrimaryAttachments(Tail(anchors))

\* lines 260-275: one local anchor of a labelled element; acc is the pair
\* [attachments, candidates]
SecondaryAnchor(acc, anchor) ==
  LET abs == toAbsoluteUrl(anchor.href)
      label == OrElse(cleanText(anchor.text), basename(abs))
  IN IF abs = Null THEN acc
     ELSE IF fileExtPattern(abs)
       THEN (IF HasUrl(acc.attachments, abs) THEN acc
             ELSE [acc EXCEPT !.attachments = Append(@, [label |-> label, url |-> abs])])
     ELSE [acc EXCEPT !.candidates = Append(@, [label |-> label, url |-> abs])]

RECURSIVE SecondaryAnchors(_, _, _)
SecondaryAnchors(acc, anchors, picks) ==
  IF picks = <<>> THEN acc
  ELSE SecondaryAnchors(SecondaryAnchor(acc, anchors[Head(picks)]), anchors, Tail(picks))

RECURSIVE SecondaryPass(_, _, _)
SecondaryPass(acc, anchors, labelled) ==
  IF labelled = <<>> THEN acc
  ELSE SecondaryPass(SecondaryAnchors(acc, anchors, Head(labelled)), anchors,
                     Tail(labelled))

\* /DANG AN|XIA ZAI/.test(t)
HasDownloadWord(t) ==
  includes(t, <<"DANG", "AN">>) \/ includes(t, <<"XIA", "ZAI">>)

\* lines 279-288: the candidates one anchor adds in the generic scan
GenericPass(anchor) ==
  LET t == cleanText(anchor.text)
      abs == toAbsoluteUrl(anchor.href)
  IN IF abs # Null /\ HasDownloadWord(t) /\ ~fileExtPattern(abs)
       THEN << [label |-> OrElse(t, basename(abs)), url |-> abs] >>
       ELSE <<>>

RECURSIVE GenericCandidates(_)
GenericCandidates(anchors) ==
  IF anchors = <<>> THEN <<>>
  ELSE GenericPass(Head(anchors)) \o GenericCandidates(Tail(anchors))

\* lines 189-288 of fetchCourseDetail: credits, the attachments found without
\* a probe, and the candidates left to verify
ParseDetail(doc) ==
  LET acc == SecondaryPass([attachments |-> PrimaryAttachments(doc.anchors),
                            candidates |-> <<>>], doc.anchors, doc.labelled)
  IN [credits |-> ExtractCredits(doc.tds),
      attachments |-> acc.attachments,
      candidates |-> acc.candidates \o GenericCandidates(doc.anchors)]

\* ------------------------------------------------------------------ the source site
\* What the model's server can answer.  Dates, hrefs and labels are short
\* stand-ins; their shapes (a 10-character date, a relative href, a .pdf
\* extension) are what the code looks at.

D_0430 == <<"2", "0", "2", "4", "/", "0", "4", "/", "3", "0">>
D_0501 == <<"2", "0", "2", "4", "/", "0", "5", "/", "0", "1">>
D_0503 == <<"2", "0", "2", "4", "-", "0", "5", "-", "0", "3">>
D_TBD == <<"T", "B", "D">>

TextCell(text) == [text |-> text, anchors |-> <<>>]

LinkCell(text, href) ==
  [text |-> text, anchors |-> << [text |-> text, href |-> href] >>]

HeaderRow == << TextCell(<<"H">>), TextCell(<<"D">>), TextCell(<<"t">>) >>

\* an open course with a detail page, a registration link and two extras,
\* the first a second link to the detail page
RowOpen ==
  << TextCell(<<" ", "A", "b">>), TextCell(D_0503), TextCell(<<"9">>),
     LinkCell(<<>>, <<"d", "1">>), LinkCell(<<"R", "NBSP">>, <<"r", "1">>),
     [text |-> <<"m", "e">>,
      anchors |-> << [text |-> <<"m">>, href |-> <<"d", "1">>],
                     [text |-> <<"e">>, href |-> <<"h", ":", "e">>] >>] >>

\* a course whose date has passed before the run starts
RowPast ==
  << TextCell(<<"c">>), TextCell(D_0430), TextCell(<<>>),
     LinkCell(<<"I">>, <<"d", "1">>) >>

\* a course with no date and no link
RowBare == << TextCell(<<"T">>), TextCell(<<>>), TextCell(<<>>) >>

\* a course whose date passes during the run and whose detail page fails
RowBroken ==
  << TextCell(<<"B", "z">>), TextCell(D_0501), TextCell(<<"9">>),
     LinkCell(<<"I">>, <<"d", "2">>), LinkCell(<<>>, <<"h", ":", "[">>) >>

\* a course linked from its title cell, with an unparseable date
RowTitleLink ==
  << LinkCell(<<"a">>, <<"d", "3">>), TextCell(D_TBD), TextCell(<<>>) >>

SpacerRow == << TextCell(<<"NBSP", " ">>) >>

NoCellRow == <<>>

HtmlFull ==
  << HeaderRow, RowOpen, RowPast, RowBare, RowBroken, SpacerRow, RowOpen, RowPast,
     RowBare, RowBroken, NoCellRow, RowOpen, RowPast >>

HtmlShort ==
  << HeaderRow, RowOpen, RowPast, RowBare, RowBroken, RowOpen, RowPast, RowBare,
     RowBroken, RowTitleLink >>

HtmlEmpty == << HeaderRow, SpacerRow >>

PageResponses ==
  {[ok |-> FALSE, html |-> <<>>]}
    \cup {[ok |-> TRUE, html |-> h] : h \in {HtmlFull, HtmlShort, HtmlEmpty}}

Anchor(text, href) ==
  [text |-> text, href |-> href, onclickHttp |-> Null, onclickQuoted |-> Null]

DocCredits ==
  [tds |-> << <<"x">>, <<"ZONG", "FEN", "FWCOLON", " ", "6", ".", "5">> >>,
   anchors |-> << Anchor(<<"f">>, <<"a", ".", "p", "d", "f">>) >>,
   labelled |-> <<>>]

DocDownloads ==
  [tds |-> << <<"x">> >>,
   anchors |-> << Anchor(<<"XIA", "ZAI">>, <<"g", "1">>),
                  Anchor(<<>>, <<"b", ".", "P", "D", "F", "?", "x">>),
                  Anchor(<<"DANG", "AN">>, <<"g", "2">>) >>,
   labelled |-> << <<2, 3>> >>]

URL_D1 == BASE_DIR \o <<"d", "1">>
URL_D2 == BASE_DIR \o <<"d", "2">>
URL_D3 == BASE_DIR \o <<"d", "3">>

\* what a GET of a detail url can give: a page, a non-success status, or a
\* rejected fetch
DetailResponses(url) ==
  IF url = URL_D1 THEN {[kind |-> "ok", doc |-> DocCredits]}
  ELSE IF url = URL_D3
    THEN {[kind |-> "ok", doc |-> DocDownloads], [kind |-> "error", doc |-> <<>>]}
  ELSE {[kind |-> "notOk", doc |-> <<>>]}

\* a HEAD probe: a success with a PDF content type, a success with another,
\* a non-success status, a rejected fetch, or the abort timer firing
HeadOutcomes == {"pdf", "other", "notOk", "error", "timeout"}

\* a ranged GET probe: as for HEAD, and "magic" is a success whose content
\* type is not PDF and whose body starts with %PDF
GetOutcomes == {"pdf", "magic", "other", "notOk", "error", "timeout"}

\* ------------------------------------------------------------------ the scraper
\* main() of scripts/fetchCourses.js as one sequential process.  pc is the
\* await (or statement) the process is at.

MAX_PAGES == 5

\* the ceilings a run is configured with: the source's, and every smaller
\* one down to 3
PageCeilings == 3..MAX_PAGES

\* lines 9-10: the delays between listing pages and between detail pages
WAIT_MS == 300

DETAIL_WAIT_MS == 400

\* the step of the model's millisecond clock
TimerStep == WAIT_MS \div 3

\* the literal of `pageCourses.length < 10`
SHORT_PAGE_ROWS == 10

\* how many times the clock may jump by a day while the run sleeps
MaxTicks == 1

\* 2024-05-01T12:00:00+08:00, when the run starts
START_INSTANT == DaysFromCivil(2024, 5, 1) * SECONDS_PER_DAY + 12 * 3600 - TAIPEI_OFFSET

\* the snapshot a previous run left in courses.json
OldSnapshot ==
  [source |-> BASE_DIR, updatedAt |-> 0, total |-> 1,
   courses |-> << [title |-> <<"o", "l", "d">>, date |-> Null, deadline |-> Null,
                   time |-> Null, links |-> <<>>, detailUrl |-> Null,
                   registrationUrl |-> Null, page |-> 1, credits |-> NoCredits,
                   attachments |-> <<>>] >>]

NoError == [kind |-> "none", page |-> 0]

VARIABLES
  pc,          \* where main() is
  maxPages,    \* the configured page ceiling (MAX_PAGES)
  page,        \* scrapeCourses: the loop variable
  courses,     \* scrapeCourses: the records collected so far
  idx,         \* enrichCoursesWithCredits: index of the course being processed
  enriched,    \* enrichCoursesWithCredits: the list built so far
  courseCopy,  \* enrichCoursesWithCredits: the copy being filled (<<>> between courses)
  detail,      \* fetchCourseDetail: [credits, attachments, candidates]
  cand,        \* fetchCourseDetail: index of the candidate being verified
  inflight,    \* the requests issued and not yet settled
  now,         \* Date.now()
  ticks,       \* how many times the clock has jumped
  file,        \* the content of data/courses.json
  error,       \* the error main() caught
  exitCode,    \* 0 until process.exit(1)
  requests,    \* history: every request issued, in order
  responses,   \* history: how each request settled, in order
  pagesSeen,   \* history: what parseCourses gave for each listing page received
  wasExpired,  \* history: isExpired(deadline) when each course was processed
  lastProbe,   \* history: how the HEAD and the GET of the latest isPdfUrl call settled,
               \* and what the call returned
  elapsed      \* sleep: the milliseconds the pending timer has run (0 when none)

history == <<requests, responses, pagesSeen, wasExpired, lastProbe>>

scrapeVars ==
  <<pc, maxPages, page, courses, idx, enriched, courseCopy, detail, cand, inflight,
    now, ticks, file, error, exitCode, history, elapsed>>

NoProbe == [head |-> "none", get |-> "none", returned |-> "none"]

NoDetail == [credits |-> NoCredits, attachments |-> <<>>, candidates |-> <<>>]

Request(kind, n, url) == [kind |-> kind, page |-> n, url |-> url, idx |-> idx]

ScraperStart ==
  /\ pc = "fetchPage"
  /\ maxPages \in PageCeilings
  /\ page = 1
  /\ courses = <<>>
  /\ idx = 0
  /\ enriched = <<>>
  /\ courseCopy = <<>>
  /\ detail = NoDetail
  /\ cand = 0
  /\ inflight = <<>>
  /\ now = START_INSTANT
  /\ ticks = 0
  /\ file = OldSnapshot
  /\ error = NoError
  /\ exitCode = 0
  /\ requests = <<>>
  /\ responses = <<>>
  /\ pagesSeen = <<>>
  /\ wasExpired = <<>>
  /\ lastProbe = NoProbe
  /\ elapsed = 0

\* line 340: fetchPage throws on a non-success response
\* variant: the status of the response is not looked at
PageFailed_Ignored(resp) == FALSE

PageFailed(resp) == ~resp.ok

\* line 368: a short page ends the loop
\* variant: only an empty page ends the paging
IsShortPage_Never(n) == FALSE

IsShortPage(n) == n < SHORT_PAGE_ROWS

\* line 397: main throws when nothing was collected
\* variant: an empty collection is written like any other
NoCourses_Allowed(list) == FALSE

NoCourses(list) == Len(list) = 0

\* line 310
\* variant: the deadline is not looked at
shouldFetchDetail_AnyDeadline(course, t) == ~Falsy(course.detailUrl)

shouldFetchDetail(course, t) ==
  ~Falsy(course.detailUrl) /\ ~isExpired(course.deadline, t)

\* lines 29, 43, 179, 338: every fetch is awaited; the pc after issuing one
AwaitPage == "pageWait"

AwaitDetail == "detailWait"

\* variant: the HEAD request is not awaited
AwaitHead_Skipped == "probeGet"

AwaitHead == "headWait"

AwaitGet == "getWait"

\* lines 313-319: an error of fetchCourseDetail is caught per record
\* variant: no try/catch around fetchCourseDetail
DetailErrorCaught_Not == FALSE

DetailErrorCaught == TRUE

\* line 20: sleep(ms) resolves when its timer fires, ms after it was set
\* variant: the promise resolves at once
TimerFired_AtOnce(ms) == TRUE

TimerFired(ms) == elapsed >= ms

\* issuing a request: it is in flight until it settles
Issue(req) ==
  /\ inflight' = Append(inflight, req)
  /\ requests' = Append(requests, req)

\* the awaited request settles
Settle(outcome) ==
  /\ inflight' = <<>>
  /\ responses' = Append(responses, outcome)

\* scrapeCourses has returned list: main's check, then enrichment starts
AfterScrape(list) ==
  IF NoCourses(list)
    THEN /\ pc' = "failed"
         /\ error' = [kind |-> "empty", page |-> 0]
         /\ exitCode' = 1
         /\ idx' = idx
    ELSE /\ pc' = "enrich"
         /\ idx' = 1
         /\ UNCHANGED <<error, exitCode>>

\* line 338: fetch(url) for the current page
FetchPage ==
  /\ pc = "fetchPage"
  /\ Issue(Request("page", page, Null))
  /\ pc' = AwaitPage
  /\ UNCHANGED <<maxPages, elapsed, page, courses, idx, enriched, courseCopy, detail, cand, now,
                 ticks, file, error, exitCode, responses, pagesSeen, wasExpired, lastProbe>>

\* lines 359-364: each record of the page gets the loop variable as its page
\* variant: every record gets page 1
WithPage_First(list, n) == [k \in 1..Len(list) |-> [page |-> 1] @@ list[k]]

WithPage(list, n) == [k \in 1..Len(list) |-> [page |-> n] @@ list[k]]

\* lines 340-370: the response arrives; parse, collect, decide to go on
PageResponse(resp) ==
  /\ pc = "pageWait"
  /\ Settle(IF resp.ok THEN "ok" ELSE "notOk")
  /\ pagesSeen' = IF resp.ok THEN Append(pagesSeen, parseCourses(resp.html))
                  ELSE pagesSeen
  /\ IF PageFailed(resp)
       THEN /\ pc' = "failed"
            /\ error' = [kind |-> "page", page |-> page]
            /\ exitCode' = 1
            /\ UNCHANGED <<courses, idx>>
       ELSE LET pageCourses == parseCourses(resp.html)
            IN IF Len(pageCourses) = 0
                 THEN /\ courses' = courses
                      /\ AfterScrape(courses)
               ELSE IF IsShortPage(Len(pageCourses))
                 THEN /\ courses' = courses \o WithPage(pageCourses, page)
                      /\ AfterScrape(courses')
               ELSE /\ courses' = courses \o WithPage(pageCourses, page)
                    /\ pc' = "pageSleep"
                    /\ UNCHANGED <<idx, error, exitCode>>
  /\ UNCHANGED <<maxPages, elapsed, page, enriched, courseCopy, detail, cand, now, ticks, file,
                 requests, wasExpired, lastProbe>>

\* line 372 and the loop header: the delay is over, next page or loop end
PageSleepDone ==
  /\ pc = "pageSleep"
  /\ TimerFired(WAIT_MS)
  /\ elapsed' = 0
  /\ page' = page + 1
  /\ IF page + 1 <= maxPages
       THEN /\ pc' = "fetchPage"
            /\ UNCHANGED <<idx, error, exitCode>>
       ELSE AfterScrape(courses)
  /\ UNCHANGED <<maxPages, courses, enriched, courseCopy, detail, cand, inflight, now,
                 ticks, file, history>>

\* time passes while the process sleeps
Tick ==
  /\ pc \in {"pageSleep", "detailSleep"}
  /\ ticks < MaxTicks
  /\ ticks' = ticks + 1
  /\ now' = now + SECONDS_PER_DAY
  /\ UNCHANGED <<pc, maxPages, page, courses, idx, enriched, courseCopy, detail, cand,
                 inflight, file, error, exitCode, history, elapsed>>

\* the pending timer runs
Elapse ==
  /\ pc \in {"pageSleep", "detailSleep"}
  /\ elapsed < (IF pc = "pageSleep" THEN WAIT_MS ELSE DETAIL_WAIT_MS)
  /\ elapsed' = elapsed + TimerStep
  /\ UNCHANGED <<pc, maxPages, page, courses, idx, enriched, courseCopy, detail, cand,
                 inflight, now, ticks, file, error, exitCode, history>>

\* lines 308-326 for a course that is not fetched, line 314 for one that is
EnrichCourse ==
  /\ pc = "enrich"
  /\ idx <= Len(courses)
  /\ wasExpired' = Append(wasExpired, isExpired(courses[idx].deadline, now))
  /\ LET course == courses[idx]
         copy == [credits |-> NoCredits] @@ course
     IN IF shouldFetchDetail(course, now)
          THEN /\ courseCopy' = copy
               /\ Issue(Request("detail", 0, course.detailUrl))
               /\ pc' = AwaitDetail
               /\ UNCHANGED <<idx, enriched>>
          ELSE /\ enriched' = Append(enriched, [attachments |-> <<>>] @@ copy)
               /\ idx' = idx + 1
               /\ UNCHANGED <<pc, courseCopy, inflight, requests>>
  /\ UNCHANGED <<maxPages, elapsed, page, courses, detail, cand, now, ticks, file, error,
                 exitCode, responses, pagesSeen, lastProbe>>

\* lines 315-316: fetchCourseDetail returned d
DetailReturned(d) ==
  /\ courseCopy' = [attachments |-> d.attachments]
                     @@ [courseCopy EXCEPT !.credits = d.credits]
  /\ pc' = "detailSleep"
  /\ UNCHANGED <<error, exitCode>>

\* lines 317-319: fetchCourseDetail threw
DetailThrew ==
  IF DetailErrorCaught
    THEN /\ pc' = "detailSleep"
         /\ UNCHANGED <<courseCopy, error, exitCode>>
    ELSE /\ pc' = "failed"
         /\ error' = [kind |-> "detail", page |-> 0]
         /\ exitCode' = 1
         /\ UNCHANGED courseCopy

\* lines 179-288: the detail response arrives and is parsed
DetailResponseOf(resp) ==
  /\ Settle(resp.kind)
  /\ IF resp.kind # "ok"
       THEN /\ DetailThrew
            /\ UNCHANGED <<detail, cand>>
       ELSE LET d == ParseDetail(resp.doc)
            IN IF d.candidates = <<>>
                 THEN /\ DetailReturned(d)
                      /\ UNCHANGED <<detail, cand>>
                 ELSE /\ detail' = d
                      /\ cand' = 1
                      /\ pc' = "probe"
                      /\ UNCHANGED <<courseCopy, error, exitCode>>
  /\ UNCHANGED <<maxPages, elapsed, page, courses, idx, enriched, now, ticks, file, requests,
                 pagesSeen, wasExpired, lastProbe>>

DetailResponse ==
  /\ pc = "detailWait"
  /\ \E resp \in DetailResponses(courseCopy.detailUrl) : DetailResponseOf(resp)

\* line 29: isPdfUrl issues the HEAD request
ProbeHead ==
  /\ pc = "probe"
  /\ Issue(Request("head", 0, detail.candidates[cand].url))
  /\ lastProbe' = NoProbe
  /\ pc' = AwaitHead
  /\ UNCHANGED <<maxPages, elapsed, page, courses, idx, enriched, courseCopy, detail, cand, now,
                 ticks, file, error, exitCode, responses, pagesSeen, wasExpired>>

\* variant: the answer of isPdfUrl is not looked at
ProbeDone_Unverified(ok) ==
  LET c == detail.candidates[cand]
      attachments == IF ~HasUrl(detail.attachments, c.url)
                       THEN Append(detail.attachments, [label |-> c.label, url |-> c.url])
                       ELSE detail.attachments
  IN IF cand < Len(detail.candidates)
       THEN /\ detail' = [detail EXCEPT !.attachments = attachments]
            /\ cand' = cand + 1
            /\ pc' = "probe"
            /\ UNCHANGED <<courseCopy, error, exitCode>>
       ELSE /\ DetailReturned([detail EXCEPT !.attachments = attachments])
            /\ detail' = NoDetail
            /\ cand' = 0

\* lines 294-296 and the loop header: isPdfUrl returned ok for the candidate
ProbeDone(ok) ==
  LET c == detail.candidates[cand]
      attachments == IF ok /\ ~HasUrl(detail.attachments, c.url)
                       THEN Append(detail.attachments, [label |-> c.label, url |-> c.url])
                       ELSE detail.attachments
  IN IF cand < Len(detail.candidates)
       THEN /\ detail' = [detail EXCEPT !.attachments = attachments]
            /\ cand' = cand + 1
            /\ pc' = "probe"
            /\ UNCHANGED <<courseCopy, error, exitCode>>
       ELSE /\ DetailReturned([detail EXCEPT !.attachments = attachments])
            /\ detail' = NoDetail
            /\ cand' = 0

\* lines 31-34: the HEAD response is ok and its content type holds
\* application/pdf
HeadConfirms(outcome) == outcome = "pdf"

\* lines 49-56: the GET response is ok and its content type holds
\* application/pdf, or its first four bytes are %PDF
\* variant: the first bytes are not looked at
GetConfirms_TypeOnly(outcome) == outcome = "pdf"

GetConfirms(outcome) == outcome \in {"pdf", "magic"}

\* lines 30-37: the HEAD settles
HeadResponse(outcome) ==
  /\ pc = "headWait"
  /\ Settle("probed")
  /\ lastProbe' = [lastProbe EXCEPT !.head = outcome,
                                    !.returned = IF HeadConfirms(outcome) THEN "true" ELSE @]
  /\ IF HeadConfirms(outcome)
       THEN ProbeDone(TRUE)
       ELSE /\ pc' = "probeGet"
            /\ UNCHANGED <<courseCopy, detail, cand, error, exitCode>>
  /\ UNCHANGED <<maxPages, elapsed, page, courses, idx, enriched, now, ticks, file, requests,
                 pagesSeen, wasExpired>>

\* line 43: isPdfUrl issues the ranged GET
ProbeGet ==
  /\ pc = "probeGet"
  /\ Issue(Request("get", 0, detail.candidates[cand].url))
  /\ pc' = AwaitGet
  /\ UNCHANGED <<maxPages, elapsed, page, courses, idx, enriched, courseCopy, detail, cand, now,
                 ticks, file, error, exitCode, responses, pagesSeen, wasExpired, lastProbe>>

\* lines 48-61: the GET settles
GetResponse(outcome) ==
  /\ pc = "getWait"
  /\ Settle("probed")
  /\ lastProbe' = [lastProbe EXCEPT !.get = outcome,
                                    !.returned = IF GetConfirms(outcome) THEN "true"
                                                 ELSE "false"]
  /\ ProbeDone(GetConfirms(outcome))
  /\ UNCHANGED <<maxPages, elapsed, page, courses, idx, enriched, now, ticks, file, requests,
                 pagesSeen, wasExpired>>

\* lines 321, 326: the delay is over, the copy is pushed
DetailSleepDone ==
  /\ pc = "detailSleep"
  /\ TimerFired(DETAIL_WAIT_MS)
  /\ elapsed' = 0
  /\ enriched' = Append(enriched, courseCopy)
  /\ courseCopy' = <<>>
  /\ idx' = idx + 1
  /\ pc' = "enrich"
  /\ UNCHANGED <<maxPages, page, courses, detail, cand, inflight, now, ticks, file,
                 error, exitCode, history>>

\* variant: the records are added to those of the file
payloadCourses_Merged(previous, records) == previous \o records

\* lines 383-390: the courses of the payload that replaces the file
payloadCourses(previous, records) == records

\* lines 378-392, 402: enrichment is over, the snapshot is written
WriteOutput ==
  /\ pc = "enrich"
  /\ idx > Len(courses)
  /\ file' = [source |-> BASE_DIR, updatedAt |-> now, total |-> Len(enriched),
              courses |-> payloadCourses(file.courses, enriched)]
  /\ pc' = "done"
  /\ UNCHANGED <<maxPages, elapsed, page, courses, idx, enriched, courseCopy, detail, cand,
                 inflight, now, ticks, error, exitCode, history>>

\* ------------------------------------------------------------------ the client
\* app.js (lines 1-589).  state and elements are the objects of those names;
\* statusCheckboxes gives each status checkbox's checked property by value;
\* loadPc is where loadDocuments() is.

DEADLINE_SOON_DAYS == 7

DEFAULT_STATUS_VALUES == {"due-soon", "active"}

\* the categories enrichDocument assigns (the keys of BADGE_TEXT)
Categories == {"due-soon", "active", "expired", "no-deadline"}

\* the values of the input[name="statusFilter"] checkboxes of the page
CheckboxValues == Categories

SortKeys == {"deadline-asc", "deadline-desc", "date-desc", "date-asc"}

NullNumber == [isNull |-> TRUE, n |-> 0]

Number(n) == [isNull |-> FALSE, n |-> n]

\* doc[key], null when the key is absent
Get(doc, key) == IF key \in DOMAIN doc THEN doc[key] ELSE Null

\* app.js parseDate(value), NaN for null
parseDate(value) ==
  IF Falsy(value) THEN NaN
  ELSE LET normalized == SlashToDash(trim(value))
           isoCandidate == IF Len(normalized) = 10 THEN normalized \o START_OF_DAY
                           ELSE normalized
       IN DateParse(isoCandidate)

getTaipeiToday(t) == parseDate(FormatTaipeiDate(t))

\* variant: the seventh day is no longer soon
Classify_SoonExclusive(deadlineDate, today) ==
  IF deadlineDate # NaN /\ today # NaN
    THEN LET diffDays == (deadlineDate - today) \div SECONDS_PER_DAY
         IN [deadlineCategory |-> IF diffDays < 0 THEN "expired"
                                  ELSE IF diffDays < DEADLINE_SOON_DAYS THEN "due-soon"
                                  ELSE "active",
             daysUntilDeadline |-> Number(diffDays)]
    ELSE [deadlineCategory |-> "no-deadline", daysUntilDeadline |-> NullNumber]

\* lines 181-194: the category and the day count of a deadline
Classify(deadlineDate, today) ==
  IF deadlineDate # NaN /\ today # NaN
    THEN LET diffDays == (deadlineDate - today) \div SECONDS_PER_DAY
         IN [deadlineCategory |-> IF diffDays < 0 THEN "expired"
                                  ELSE IF diffDays <= DEADLINE_SOON_DAYS THEN "due-soon"
                                  ELSE "active",
             daysUntilDeadline |-> Number(diffDays)]
    ELSE [deadlineCategory |-> "no-deadline", daysUntilDeadline |-> NullNumber]

\* enrichDocument(doc) at the instant t
enrichDocument(doc, t) ==
  LET issuedDate == parseDate(Get(doc, "date"))
      deadlineDate == parseDate(Get(doc, "deadline"))
      c == Classify(deadlineDate, getTaipeiToday(t))
  IN [issuedDate |-> issuedDate, deadlineDate |-> deadlineDate,
      deadlineCategory |-> c.deadlineCategory,
      daysUntilDeadline |-> c.daysUntilDeadline] @@ doc

\* variant: the direction is not looked at
compareDate_Ascending(a, b, key, direction) ==
  IF a[key] = NaN /\ b[key] = NaN THEN 0
  ELSE IF a[key] = NaN THEN 1
  ELSE IF b[key] = NaN THEN -1
  ELSE a[key] - b[key]

\* compareDate(a, b, key, direction)
compareDate(a, b, key, direction) ==
  IF a[key] = NaN /\ b[key] = NaN THEN 0
  ELSE IF a[key] = NaN THEN 1
  ELSE IF b[key] = NaN THEN -1
  ELSE IF direction = "asc" THEN a[key] - b[key] ELSE b[key] - a[key]

\* the comparator sortDocuments hands to Array.prototype.sort
Comparator(a, b, sort) ==
  IF sort \in {"deadline-asc", "deadline-desc"}
    THEN IF a.deadlineDate = NaN /\ b.deadlineDate = NaN
           THEN compareDate(a, b, "issuedDate", "desc")
         ELSE IF a.deadlineDate = NaN THEN 1
         ELSE IF b.deadlineDate = NaN THEN -1
         ELSE LET diff == IF sort = "deadline-asc"
                            THEN a.deadlineDate - b.deadlineDate
                            ELSE b.deadlineDate - a.deadlineDate
              IN IF diff = 0 THEN compareDate(a, b, "issuedDate", "desc") ELSE diff
  ELSE IF sort = "date-desc" THEN compareDate(a, b, "issuedDate", "desc")
  ELSE IF sort = "date-asc" THEN compareDate(a, b, "issuedDate", "asc")
  ELSE 0

\* x put into the sorted list after every element that does not come after it
RECURSIVE InsertSorted(_, _, _)
InsertSorted(sorted, x, sort) ==
  IF sorted = <<>> THEN <<x>>
  ELSE IF Comparator(sorted[Len(sorted)], x, sort) <= 0 THEN Append(sorted, x)
  ELSE Append(InsertSorted(SubSeq(sorted, 1, Len(sorted) - 1), x, sort),
              sorted[Len(sorted)])

RECURSIVE StableSort(_, _)
StableSort(list, sort) ==
  IF list = <<>> THEN <<>>
  ELSE InsertSorted(StableSort(SubSeq(list, 1, Len(list) - 1), sort),
                    list[Len(list)], sort)

\* sortDocuments(documents): Array.prototype.sort is stable
sortDocuments(documents, sort) == StableSort(documents, sort)

TextOf(doc, key) == IF IsNull(Get(doc, key)) THEN <<>> ELSE doc[key]

ListOf(doc, key) == IF key \in DOMAIN doc THEN doc[key] ELSE <<>>

RECURSIVE JoinLinks(_)
\* links.map(link => `${label} ${url}`.toLowerCase()).join(' ')
JoinLinks(links) ==
  IF links = <<>> THEN <<>>
  ELSE LET one == toLowerCase(TextOf(Head(links), "label") \o <<" ">>
                              \o (IF IsNull(Get(Head(links), "url")) THEN <<>>
                                  ELSE Head(links).url))
       IN IF Len(links) = 1 THEN one ELSE one \o <<" ">> \o JoinLinks(Tail(links))

\* lines 270-285: the search predicate
MatchesQuery(doc, query) ==
  LET title == toLowerCase(IF ~IsNull(Get(doc, "title")) THEN doc.title
                           ELSE TextOf(doc, "subject"))
      timeText == toLowerCase(TextOf(doc, "time"))
      linksText == JoinLinks(ListOf(doc, "links") \o ListOf(doc, "attachments"))
      dateText == toLowerCase(TextOf(doc, "date"))
      deadlineText == toLowerCase(TextOf(doc, "deadline"))
  IN \/ includes(title, query)
     \/ includes(timeText, query)
     \/ includes(linksText, query)
     \/ includes(dateText, query)
     \/ includes(deadlineText, query)

\* variant: any number of credits counts
HasCredits_NotNull(doc) == "credits" \in DOMAIN doc /\ ~doc.credits.isNull

\* line 295: Number(doc.credits ?? 0) > 0
HasCredits(doc) ==
  "credits" \in DOMAIN doc /\ ~doc.credits.isNull /\ doc.credits.milli > 0

\* applyFilters()
applyFilters(documents, filters) ==
  LET query == toLowerCase(filters.search)
      byQuery == IF query # <<>>
                   THEN SelectSeq(documents, LAMBDA d : MatchesQuery(d, query))
                   ELSE documents
      byStatus == IF filters.statuses # {}
                    THEN SelectSeq(byQuery,
                                   LAMBDA d : d.deadlineCategory \in filters.statuses)
                    ELSE byQuery
      byCredits == IF filters.hasCreditsOnly THEN SelectSeq(byStatus, HasCredits)
                   ELSE byStatus
  IN sortDocuments(byCredits, filters.sort)

StatusLine(kind, filtered, total) == [kind |-> kind, filtered |-> filtered, total |-> total]

\* variant: an empty result is counted like any other
updateStatus_NoEmptyCase(filtered, total) ==
  IF total = 0 THEN StatusLine("noData", 0, 0)
  ELSE StatusLine("showing", filtered, total)

\* updateStatus(filtered, total): the text of the status line
updateStatus(filtered, total) ==
  IF total = 0 THEN StatusLine("noData", 0, 0)
  ELSE IF filtered = 0 THEN StatusLine("noMatch", 0, 0)
  ELSE StatusLine("showing", filtered, total)

VARIABLES
  state,             \* [documents, filtered, filters]
  elements,          \* the DOM nodes the script writes
  statusCheckboxes,  \* value -> checked
  loadPc,            \* "fetching", "loaded" or "failed"
  lastToggleRejected, \* history: the latest event was a toggle the handler rejected
  preview,           \* the preview modal, its content and its download link
  lastClick          \* history: the event of the latest handler run, when it was a
                     \* click: its target, keys and defaultPrevented

previewVars == <<preview, lastClick>>

\* no click, or an event of another kind
NoClick ==
  [kind |-> "none",
   target |-> [href |-> Null, text |-> Null, register |-> FALSE, download |-> FALSE],
   keys |-> {}, defaultPrevented |-> FALSE]

clientVars ==
  <<state, elements, statusCheckboxes, loadPc, lastToggleRejected, previewVars>>

\* the event is no click and nothing touches the modal
NotAClick ==
  /\ lastClick' = NoClick
  /\ UNCHANGED preview

\* a click on the control named kind, outside the cards and the modal
ControlClick(kind) ==
  /\ lastClick' = [NoClick EXCEPT !.kind = kind]
  /\ UNCHANGED preview

\* lines 402-408: closePreview() on the modal p
closePreview(p) ==
  [p EXCEPT !.hidden = TRUE, !.ariaHidden = TRUE, !.content = Null,
            !.downloadHref = <<"#">>]

\* variant: every checkbox is checked
syncStatusCheckboxes_AllChecked(statuses) == [v \in CheckboxValues |-> TRUE]

\* syncStatusCheckboxes()
syncStatusCheckboxes(statuses) == [v \in CheckboxValues |-> v \in statuses]

InitialFilters ==
  [search |-> <<>>, sort |-> "deadline-asc", statuses |-> DEFAULT_STATUS_VALUES,
   hasCreditsOnly |-> FALSE]

ClientStart ==
  /\ state = [documents |-> <<>>, filtered |-> <<>>, filters |-> InitialFilters]
  /\ elements = [status |-> StatusLine("initial", 0, 0), statusError |-> FALSE,
                 listHidden |-> FALSE, cards |-> <<>>, searchInput |-> <<>>,
                 sortSelect |-> "deadline-asc", creditPressed |-> FALSE,
                 updatedAt |-> "initial"]
  /\ statusCheckboxes = syncStatusCheckboxes(DEFAULT_STATUS_VALUES)
  /\ loadPc = "fetching"
  /\ lastToggleRejected = FALSE
  /\ preview = [hidden |-> TRUE, ariaHidden |-> TRUE, content |-> Null,
                downloadHref |-> <<"#">>, downloadText |-> Null]
  /\ lastClick = NoClick

\* variant: render() leaves state.filtered as it is
Rendered_Stale(st) == st

\* line 551: render() with the state st
Rendered(st) ==
  [st EXCEPT !.filtered = applyFilters(st.documents, st.filters)]

\* lines 552-557, st being the state render() left
RenderedElements(el, st) ==
  LET filtered == st.filtered
  IN [el EXCEPT !.status = updateStatus(Len(filtered), Len(st.documents)),
                !.statusError = FALSE,
                !.listHidden = ~(Len(filtered) > 0),
                !.cards = IF Len(filtered) > 0
                            THEN [n \in 1..Len(filtered) |-> filtered[n].title]
                            ELSE @]

\* variant: the size of the set is not looked at
WouldBeEmpty_Never(statuses) == FALSE

\* line 69: the toggle that empties the accepted set is rejected
WouldBeEmpty(statuses) == Cardinality(statuses) = 0

\* variant: the rejected checkbox is left as the user put it
RejectedChecked_Left == FALSE

\* line 71: checkbox.checked = true
RejectedChecked == TRUE

\* lines 63-76: the user toggles the checkbox of value v, the change handler runs
StatusChange(v) ==
  LET checked == ~statusCheckboxes[v]
      toggled == IF checked THEN state.filters.statuses \cup {v}
                 ELSE state.filters.statuses \ {v}
  IN IF ~checked /\ WouldBeEmpty(toggled)
       THEN /\ state' = [state EXCEPT !.filters.statuses = toggled \cup {v}]
            /\ statusCheckboxes' = [statusCheckboxes EXCEPT ![v] = RejectedChecked]
            /\ lastToggleRejected' = TRUE
            /\ UNCHANGED <<elements, loadPc>>
       ELSE /\ state' = Rendered([state EXCEPT !.filters.statuses = toggled])
            /\ elements' = RenderedElements(elements, state')
            /\ statusCheckboxes' = [statusCheckboxes EXCEPT ![v] = checked]
            /\ lastToggleRejected' = FALSE
            /\ UNCHANGED loadPc

\* lines 83-87
CreditClick ==
  /\ ControlClick("credit")
  /\ state' = Rendered([state EXCEPT !.filters.hasCreditsOnly = ~@])
  /\ elements' = RenderedElements(
       [elements EXCEPT !.creditPressed = state'.filters.hasCreditsOnly], state')
  /\ lastToggleRejected' = FALSE
  /\ UNCHANGED <<statusCheckboxes, loadPc>>

\* what the user can have in the search box
SearchTexts == {<<>>, <<" ">>, <<" ", "A", "b", " ">>, <<"q">>, <<"9">>}

\* lines 91-94: the input event with the box holding raw
SearchInput(raw) ==
  /\ raw # elements.searchInput
  /\ state' = Rendered([state EXCEPT !.filters.search = trim(raw)])
  /\ elements' = RenderedElements([elements EXCEPT !.searchInput = raw], state')
  /\ lastToggleRejected' = FALSE
  /\ UNCHANGED <<statusCheckboxes, loadPc>>

\* lines 96-102: Escape in the search box; the keydown goes on to the
\* listener of the document (398-400)
SearchEscape ==
  /\ preview' = closePreview(preview)
  /\ lastClick' = NoClick
  /\ IF elements.searchInput # <<>>
       THEN /\ state' = Rendered([state EXCEPT !.filters.search = <<>>])
            /\ elements' = RenderedElements([elements EXCEPT !.searchInput = <<>>], state')
       ELSE UNCHANGED <<state, elements>>
  /\ lastToggleRejected' = FALSE
  /\ UNCHANGED <<statusCheckboxes, loadPc>>

\* lines 106-109
SortChange(key) ==
  /\ key # elements.sortSelect
  /\ state' = Rendered([state EXCEPT !.filters.sort = key])
  /\ elements' = RenderedElements([elements EXCEPT !.sortSelect = key], state')
  /\ lastToggleRejected' = FALSE
  /\ UNCHANGED <<statusCheckboxes, loadPc>>

\* variant: the sort order is left as the user chose it
ClearedFilters_KeepSort(filters) == [InitialFilters EXCEPT !.sort = filters.sort]

\* lines 123-126: what the handler makes of the filters
ClearedFilters(filters) ==
  [filters EXCEPT !.search = <<>>, !.sort = "deadline-asc",
                  !.statuses = DEFAULT_STATUS_VALUES, !.hasCreditsOnly = FALSE]

\* lines 113-135
ClearFilters ==
  LET hasSearch == state.filters.search # <<>>
      hasSort == state.filters.sort # "deadline-asc"
      hasStatusChange == state.filters.statuses # DEFAULT_STATUS_VALUES
      hasCreditFilter == state.filters.hasCreditsOnly
  IN /\ ControlClick("clear")
     /\ lastToggleRejected' = FALSE
     /\ IF ~hasSearch /\ ~hasSort /\ ~hasStatusChange /\ ~hasCreditFilter
       THEN UNCHANGED <<state, elements, statusCheckboxes, loadPc>>
       ELSE /\ state' = Rendered([state EXCEPT !.filters = ClearedFilters(@)])
            /\ statusCheckboxes' = syncStatusCheckboxes(state'.filters.statuses)
            /\ elements' = RenderedElements(
                 [elements EXCEPT !.creditPressed = FALSE, !.searchInput = <<>>,
                                  !.sortSelect = "deadline-asc"], state')
            /\ UNCHANGED loadPc

\* ------------------------------------------------------------------ snapshots served
\* What courses.json can hold when the client loads it.

RecordOf(row, p, credits, attachments) ==
  [page |-> p, credits |-> credits, attachments |-> attachments] @@ ParseRow(row)[1]

RowLater ==
  << TextCell(<<"Z", "a">>), TextCell(<<"2", "0", "2", "4", "-", "0", "5", "-", "2", "0">>),
     TextCell(<<"9">>), LinkCell(<<"I">>, <<"d", "1">>) >>

SnapshotCourses ==
  << RecordOf(RowOpen, 1, Credits(6500), ParseDetail(DocCredits).attachments),
     RecordOf(RowPast, 1, NoCredits, <<>>),
     RecordOf(RowBare, 1, NoCredits, <<>>),
     [page |-> 2, credits |-> NoCredits] @@ ParseRow(RowBroken)[1],
     RecordOf(RowLater, 2, Credits(0), <<>>) >>

Payloads ==
  { [courses |-> SnapshotCourses, updatedAt |-> "stamp"],
    [courses |-> <<>>, updatedAt |-> "stamp"],
    [documents |-> SubSeq(SnapshotCourses, 1, 2), scrapedAt |-> "stamp"] }

\* the instants at which the page can be opened
ClientInstants == {START_INSTANT, START_INSTANT + SECONDS_PER_DAY}

\* lines 570-581: the snapshot arrived and parsed
LoadSucceeds(payload, t) ==
  /\ loadPc = "fetching"
  /\ LET documents == IF "courses" \in DOMAIN payload THEN payload.courses
                      ELSE IF "documents" \in DOMAIN payload THEN payload.documents
                      ELSE <<>>
         stamp == IF "updatedAt" \in DOMAIN payload THEN payload.updatedAt
                  ELSE IF "scrapedAt" \in DOMAIN payload THEN payload.scrapedAt
                  ELSE "none"
     IN /\ state' = Rendered([state EXCEPT !.documents =
                       [n \in 1..Len(documents) |-> enrichDocument(documents[n], t)]])
        /\ elements' = [RenderedElements(elements, state') EXCEPT
                          !.updatedAt = IF stamp # "none" THEN stamp ELSE @]
  /\ loadPc' = "loaded"
  /\ lastToggleRejected' = FALSE
  /\ UNCHANGED statusCheckboxes

\* lines 566-568, 582-586: the fetch rejects, the status is not a success, or
\* the body is no JSON
LoadFails ==
  /\ loadPc = "fetching"
  /\ elements' = [elements EXCEPT !.status = StatusLine("loadFailed", 0, 0),
                                  !.statusError = TRUE]
  /\ loadPc' = "failed"
  /\ lastToggleRejected' = FALSE
  /\ UNCHANGED <<state, statusCheckboxes>>

\* ------------------------------------------------------------------ courses.json as text
\* JSON.stringify and JSON.parse on the values a snapshot is made of.  The
\* text is its sequence of tokens (white space and commas left out): braces,
\* brackets, member names, string literals with their escapes, number
\* literals, null.  A member that is absent is not written.

Token(t, v) == [t |-> t, v |-> v]

RECURSIVE Escape(_)
\* the body of a string literal: " and \ get a \ in front
Escape(text) ==
  IF text = <<>> THEN <<>>
  ELSE (IF Head(text) \in {"\"", "\\"} THEN <<"\\", Head(text)>> ELSE <<Head(text)>>)
         \o Escape(Tail(text))

RECURSIVE Unescape(_)
Unescape(body) ==
  IF body = <<>> THEN <<>>
  ELSE IF Head(body) = "\\" /\ Len(body) >= 2
    THEN <<body[2]>> \o Unescape(SubSeq(body, 3, Len(body)))
  ELSE <<Head(body)>> \o Unescape(Tail(body))

RECURSIVE IntText(_)
\* the decimal digits of a natural number
IntText(n) ==
  IF n < 10 THEN <<DigitChars[n + 1]>>
  ELSE IntText(n \div 10) \o <<DigitChars[(n % 10) + 1]>>

RECURSIVE StripZeros(_)
StripZeros(digits) ==
  IF digits # <<>> /\ digits[Len(digits)] = "0"
    THEN StripZeros(SubSeq(digits, 1, Len(digits) - 1))
    ELSE digits

\* variant: the fraction of a number is not written
NumberText_Truncated(milli) == IntText(milli \div 1000)

\* the literal of a number given in thousandths: 6500 is 6.5, 6000 is 6
NumberText(milli) ==
  IntText(milli \div 1000)
    \o (IF milli % 1000 = 0 THEN <<>>
        ELSE <<".">> \o StripZeros(Pad(milli % 1000, 3)))

TextTokens(value) ==
  IF IsNull(value) THEN <<Token("null", <<>>)>>
  ELSE <<Token("str", Escape(value))>>

Member(name) == <<Token("key", <<name>>)>>

LinkTokens(link) ==
  <<Token("{", <<>>)>> \o Member("label") \o TextTokens(link.label)
    \o Member("url") \o TextTokens(link.url) \o <<Token("}", <<>>)>>

RECURSIVE LinksTokens(_)
LinksTokens(links) ==
  IF links = <<>> THEN <<>> ELSE LinkTokens(Head(links)) \o LinksTokens(Tail(links))

\* the members of a course record, in the order the scraper sets them
RecordKeys ==
  << "title", "date", "deadline", "time", "links", "detailUrl", "registrationUrl",
     "page", "credits", "attachments" >>

ValueTokens(record, key) ==
  IF key \in {"links", "attachments"}
    THEN <<Token("[", <<>>)>> \o LinksTokens(record[key]) \o <<Token("]", <<>>)>>
  ELSE IF key = "credits"
    THEN (IF record.credits.isNull THEN <<Token("null", <<>>)>>
          ELSE <<Token("num", NumberText(record.credits.milli))>>)
  ELSE IF key = "page" THEN <<Token("num", IntText(record.page))>>
  ELSE TextTokens(record[key])

RECURSIVE MemberTokens(_, _)
MemberTokens(record, keys) ==
  IF keys = <<>> THEN <<>>
  ELSE (IF Head(keys) \in DOMAIN record
          THEN Member(Head(keys)) \o ValueTokens(record, Head(keys))
          ELSE <<>>)
         \o MemberTokens(record, Tail(keys))

RecordTokens(record) ==
  <<Token("{", <<>>)>> \o MemberTokens(record, RecordKeys) \o <<Token("}", <<>>)>>

RECURSIVE RecordsTokens(_)
RecordsTokens(records) ==
  IF records = <<>> THEN <<>>
  ELSE RecordTokens(Head(records)) \o RecordsTokens(Tail(records))

\* JSON.stringify(payload, null, 2); updatedAt is the instant its ISO text names
JSONStringify(payload) ==
  <<Token("{", <<>>)>>
    \o Member("source") \o TextTokens(payload.source)
    \o Member("updatedAt") \o <<Token("num", IntText(payload.updatedAt))>>
    \o Member("total") \o <<Token("num", IntText(payload.total))>>
    \o Member("courses") \o <<Token("[", <<>>)>> \o RecordsTokens(payload.courses)
    \o <<Token("]", <<>>), Token("}", <<>>)>>

\* the value of a number literal under the member name key
NumberOf(literal, key) ==
  IF key = "credits" THEN CreditValueAt(literal, 1) ELSE NumVal(literal)

RECURSIVE ParseValue(_, _, _)
RECURSIVE ParseMembers(_, _, _)
RECURSIVE ParseElements(_, _, _, _)
\* the value that starts at token i, a member of name key or an element of
\* the array of that name, and the index of the token after it
ParseValue(tokens, i, key) ==
  LET tok == tokens[i]
  IN IF tok.t = "{" THEN ParseMembers(tokens, i + 1, <<>>)
     ELSE IF tok.t = "[" THEN ParseElements(tokens, i + 1, key, <<>>)
     ELSE IF tok.t = "str" THEN [v |-> Unescape(tok.v), n |-> i + 1]
     ELSE IF tok.t = "num" THEN [v |-> NumberOf(tok.v, key), n |-> i + 1]
     ELSE [v |-> IF key = "credits" THEN NoCredits ELSE Null, n |-> i + 1]

ParseMembers(tokens, i, members) ==
  IF tokens[i].t = "}" THEN [v |-> members, n |-> i + 1]
  ELSE LET name == tokens[i].v[1]
           member == ParseValue(tokens, i + 1, name)
       IN ParseMembers(tokens, member.n, (name :> member.v) @@ members)

ParseElements(tokens, i, key, items) ==
  IF tokens[i].t = "]" THEN [v |-> items, n |-> i + 1]
  ELSE LET element == ParseValue(tokens, i, key)
       IN ParseElements(tokens, element.n, key, Append(items, element.v))

\* JSON.parse(text)
JSONParse(tokens) == ParseValue(tokens, 1, "").v

\* ------------------------------------------------------------------ the functions on their own
\* The functions of both programs that take no part of the programs' state,
\* each called on arguments drawn from a bounded set: op is the function
\* called ("none" between two calls), args its arguments, result what it
\* returned.

VARIABLES op, args, result

fnVars == <<op, args, result>>

vars == <<clientVars, scrapeVars, fnVars>>

FnStart ==
  /\ op = "none"
  /\ args = <<>>
  /\ result = <<>>

Call(name, arguments, value) ==
  /\ op = "none"
  /\ op' = name
  /\ args' = arguments
  /\ result' = value

\* the caller goes on
Return ==
  /\ op # "none"
  /\ op' = "none"
  /\ args' = <<>>
  /\ result' = <<>>

RECURSIVE VerifyCandidates(_, _, _)
\* lines 291-300, verdicts[n] being what isPdfUrl answers for candidate n
VerifyCandidates(attachments, candidates, verdicts) ==
  IF candidates = <<>> THEN attachments
  ELSE LET c == Head(candidates)
           next == IF Head(verdicts) /\ ~HasUrl(attachments, c.url)
                     THEN Append(attachments, [label |-> c.label, url |-> c.url])
                     ELSE attachments
       IN VerifyCandidates(next, Tail(candidates), Tail(verdicts))

\* lines 189-302: what fetchCourseDetail returns for a page that arrived
fetchCourseDetail(doc, verdicts) ==
  LET d == ParseDetail(doc)
  IN [credits |-> d.credits,
      attachments |-> VerifyCandidates(d.attachments, d.candidates, verdicts)]

\* a page that links the same document from an icon and from its name, and
\* once more from the related-files block
DocTwice ==
  [tds |-> << <<"x">> >>,
   anchors |-> << Anchor(<<>>, <<"a", ".", "p", "d", "f">>),
                  Anchor(<<"f">>, <<"a", ".", "p", "d", "f">>),
                  Anchor(<<"f">>, <<"h", ":", "k", "/", "a", ".", "p", "d", "f">>) >>,
   labelled |-> << <<3>> >>]

\* a page whose only document opens from an onclick handler
DocOnclick ==
  [tds |-> << <<"x">> >>,
   anchors |-> << [text |-> <<"o">>, href |-> Null, onclickHttp |-> Null,
                   onclickQuoted |-> <<"c", ".", "p", "d", "f">>],
                  Anchor(<<"XIA", "ZAI">>, <<"c", ".", "p", "d", "f">>) >>,
   labelled |-> <<>>]

DetailDocs == {DocCredits, DocDownloads, DocTwice, DocOnclick}

Verdicts(doc) == [1..Len(ParseDetail(doc).candidates) -> BOOLEAN]

CallFetchCourseDetail ==
  \E doc \in DetailDocs : \E verdicts \in Verdicts(doc) :
    Call("fetchCourseDetail", [doc |-> doc, verdicts |-> verdicts],
         fetchCourseDetail(doc, verdicts))

\* the date texts a record can carry
DateTexts ==
  { Null, <<>>, D_0430, D_0501, D_0503, D_TBD,
    <<"2", "0", "2", "4", "-", "0", "5", "-", "0", "8">>,
    <<"2", "0", "2", "4", "-", "0", "5", "-", "0", "9">>,
    <<"2", "0", "2", "4", "-", "0", "6", "-", "0", "1">>,
    <<" ", "2", "0", "2", "4", "/", "0", "5", "/", "0", "3", " ">>,
    <<"2", "0", "2", "4", "-", "0", "5", "-", "0", "3", "T", "1", "0", ":", "0", "0", ":", "0", "0", "+", "0", "8", ":", "0", "0">>,
    <<"2", "0", "2", "4", "-", "1", "3", "-", "0", "1">> }

\* instants around the start and the end of 2024-05-01 in Taipei
DayEdges ==
  { START_INSTANT - 12 * 3600 - 1, START_INSTANT - 12 * 3600, START_INSTANT,
    START_INSTANT + 12 * 3600 - 1 }

CallParseDate ==
  \E value \in DateTexts : Call("parseDate", [value |-> value], parseDate(value))

\* records as far as enrichDocument reads them, one without a deadline key
DatedDocs ==
  {[title |-> <<"t">>, date |-> v, deadline |-> v] : v \in DateTexts}
    \cup {[title |-> <<"t">>, date |-> D_0503]}

CallEnrichDocument ==
  \E doc \in DatedDocs, t \in DayEdges :
    Call("enrichDocument", [doc |-> doc, t |-> t], enrichDocument(doc, t))

\* a row whose registration link and extras point again at the detail page,
\* under other labels and spellings, beside an extra that does not resolve
\* and an anchor without href
RowSame ==
  << TextCell(<<"S">>), TextCell(D_0503), TextCell(<<>>),
     LinkCell(<<"I", "n">>, <<"d", "1">>),
     LinkCell(<<"R">>, <<"h", ":", "k", "/", "d", "1">>),
     [text |-> <<"x">>,
      anchors |-> << [text |-> <<"e">>, href |-> <<"h", ":", "e">>],
                     [text |-> <<"b">>, href |-> <<"h", ":", "[">>],
                     [text |-> <<"n">>, href |-> Null],
                     [text |-> <<>>, href |-> <<"h", ":", "e">>],
                     [text |-> <<"m">>, href |-> <<"d", "1">>] >>] >>

ListingRows ==
  { RowOpen, RowPast, RowBare, RowBroken, RowTitleLink, RowSame, SpacerRow, NoCellRow,
    HeaderRow }

CallParseRow ==
  \E row \in ListingRows : Call("parseRow", [row |-> row], ParseRow(row))

\* link candidates as buildLink gives them, NoLink for null
SomeLinks ==
  { NoLink,
    [label |-> <<"A">>, url |-> URL_D1],
    [label |-> <<"B">>, url |-> URL_D1],
    [label |-> <<"C">>, url |-> URL_D2] }

MaxCandidates == 3

CandidateLists == UNION {[1..n -> SomeLinks] : n \in 0..MaxCandidates}

CallDedupeLinks ==
  \E candidates \in CandidateLists :
    Call("dedupeLinks", [candidates |-> candidates], DedupeLinks(candidates, {}))

\* a course whose title holds a quotation mark and a backslash
RowQuoted ==
  << TextCell(<<"\"", "q", "\\", "\"">>), TextCell(D_0503), TextCell(<<"9">>),
     LinkCell(<<"\\">>, <<"d", "1">>) >>

\* what a run of the scraper can have written
WrittenSnapshots ==
  { OldSnapshot,
    [source |-> BASE_DIR, updatedAt |-> START_INSTANT, total |-> Len(SnapshotCourses),
     courses |-> SnapshotCourses],
    [source |-> BASE_DIR, updatedAt |-> START_INSTANT + 1, total |-> 1,
     courses |-> << RecordOf(RowQuoted, 1, Credits(12000),
                             ParseDetail(DocDownloads).attachments) >>] }

\* writeOutput, then loadDocuments up to line 573
CallRoundTrip ==
  \E snapshot \in WrittenSnapshots, t \in ClientInstants :
    LET payload == JSONParse(JSONStringify(snapshot))
    IN Call("roundTrip", [snapshot |-> snapshot, t |-> t],
            [payload |-> payload,
             documents |-> [n \in 1..Len(payload.courses) |->
                              enrichDocument(payload.courses[n], t)]])

\* records as far as sortDocuments reads them: every pairing of no date, one
\* day and the day after for the issued date and the deadline date
SortDates == {NaN, START_INSTANT, START_INSTANT + SECONDS_PER_DAY}

SortDocs ==
  {d \in [issuedDate : SortDates, deadlineDate : SortDates] :
     \/ d.issuedDate = d.deadlineDate
     \/ d.issuedDate = START_INSTANT
     \/ d.deadlineDate = START_INSTANT}

MaxSorted == 3

CallSortDocuments ==
  \E n \in 0..MaxSorted : \E documents \in [1..n -> SortDocs] : \E sort \in SortKeys :
    Call("sortDocuments", [documents |-> documents, sort |-> sort],
         sortDocuments(documents, sort))

\* the <td> texts of detail pages: the label with an integer, with a
\* decimal after a space, in its longer form, without a number, with a space
\* inside the label, after a cell that only names the label, and not at all
CreditPages ==
  { << <<"ZONG", "FEN", "FWCOLON", "6">> >>,
    << <<"x">>, <<"ZONG", "FEN", "FWCOLON", " ", "6", ".", "5">> >>,
    << <<"a", " ", "ZONG", "XUE", "FEN", ":", "1", "2", " ", "FEN">> >>,
    << <<"ZONG", "FEN">>, <<"6">> >>,
    << <<"ZONG", " ", "FEN", "FWCOLON", "6">> >>,
    << <<"ZONG", "FEN", " ", "x">>, <<"ZONG", "FEN", "FWCOLON", "3">> >>,
    << <<"x">>, <<"6", ".", "5">> >>,
    << >> }

CallExtractCredits ==
  \E tds \in CreditPages : Call("extractCredits", [tds |-> tds], ExtractCredits(tds))

\* a course whose only link stands in the sixth cell
RowExtraOnly ==
  << TextCell(<<"E">>), TextCell(D_0503), TextCell(<<"9">>), TextCell(<<>>),
     TextCell(<<>>),
     [text |-> <<"e">>, anchors |-> << [text |-> <<"e">>, href |-> <<"h", ":", "e">>] >>] >>

\* a row of white space in three cells
SpacerCells == << TextCell(<<" ", "NBSP", "TAB">>), TextCell(<<"x">>), TextCell(<<>>) >>

PageRows ==
  { HeaderRow, RowBare, RowTitleLink, RowExtraOnly, RowOpen, SpacerRow, SpacerCells,
    NoCellRow }

MaxRows == 3

CallParseCourses ==
  \E n \in 0..MaxRows : \E html \in [1..n -> PageRows] :
    Call("parseCourses", [html |-> html], parseCourses(html))

\* ------------------------------------------------------------------ the preview
\* The link lists of the cards and the modal (app.js 336-442).  BAO MING
\* (registration) and FU JIAN (attachment) are label characters like those
\* of the detail pages.

\* line 3, abbreviated
PREVIEW_VIEWER_BASE == <<"v", "?", "u", "=">>

\* encodeURIComponent on the characters the urls of the model are made of:
\* all but A-Z a-z 0-9 - _ . ! ~ * ' ( ) are percent-encoded
PercentCode ==
  (":" :> <<"%", "3", "A">>) @@ ("/" :> <<"%", "2", "F">>) @@ ("?" :> <<"%", "3", "F">>)
    @@ ("#" :> <<"%", "2", "3">>) @@ ("[" :> <<"%", "5", "B">>)
    @@ (" " :> <<"%", "2", "0">>) @@ ("=" :> <<"%", "3", "D">>)
    @@ ("%" :> <<"%", "2", "5">>)

RECURSIVE encodeURIComponent(_)
encodeURIComponent(s) ==
  IF s = <<>> THEN <<>>
  ELSE (IF Head(s) \in DOMAIN PercentCode THEN PercentCode[Head(s)] ELSE <<Head(s)>>)
         \o encodeURIComponent(Tail(s))

\* lines 433-442; an href is absolute, so the page's location does not
\* matter; new URL throws for one that starts "h:["
buildPreviewUrl(url) ==
  IF Falsy(url) THEN Null
  ELSE IF toAbsoluteUrl(url) = Null THEN url
  ELSE PREVIEW_VIEWER_BASE \o encodeURIComponent(toAbsoluteUrl(url))

\* lines 410-431: showPreview(url, label) on the modal p
showPreview(p, url, label) ==
  IF Falsy(url) THEN p
  ELSE [hidden |-> FALSE, ariaHidden |-> FALSE,
        content |-> [src |-> IF Falsy(buildPreviewUrl(url)) THEN url
                             ELSE buildPreviewUrl(url),
                     title |-> OrElse(label, <<"DANG", "AN", "YU", "LAN">>)],
        downloadHref |-> url,
        downloadText |-> <<"XIA", "ZAI">> \o OrElse(label, <<"DANG", "AN">>)]

\* /\.pdf\b/.test(lowerUrl)
HasPdfWord(lowerUrl) ==
  \E i \in 1..(Len(lowerUrl) - 3) :
    /\ SubSeq(lowerUrl, i, i + 3) = <<".", "p", "d", "f">>
    /\ (i + 3 = Len(lowerUrl)
          \/ lowerUrl[i + 4] \notin ({LowerCase[n] : n \in 1..26} \cup Digits \cup {"_"}))

\* lines 353-368: the anchor made for the item at index (from 0) of allLinks
LinkAnchor(item, index) ==
  LET labelText == OrElse(trim(TextOf(item, "label")),
                          <<"FU", "JIAN", " ">> \o Pad(index + 1, 2))
      lowerUrl == toLowerCase(item.url)
  IN [href |-> item.url,
      text |-> labelText,
      register |-> \/ includes(labelText, <<"BAO", "MING">>)
                   \/ \E w \in {<<"r", "e", "g", "i", "s", "t", "e", "r">>,
                                <<"s", "i", "g", "n", "u", "p">>,
                                <<"e", "n", "r", "o", "l", "l">>} : includes(lowerUrl, w),
      download |-> \/ includes(labelText, <<"XIA", "ZAI">>)
                   \/ includes(labelText, <<"FU", "JIAN">>)
                   \/ includes(labelText, <<"DANG", "AN">>)
                   \/ HasPdfWord(lowerUrl)
                   \/ includes(lowerUrl, <<"d", "o", "w", "n", "l", "o", "a", "d", ".",
                                           "p", "h", "p">>)]

RECURSIVE LinkAnchors(_, _, _)
\* lines 345-371: allLinks.forEach from index on, seen being the urls so far
LinkAnchors(allLinks, index, seen) ==
  IF index >= Len(allLinks) THEN <<>>
  ELSE LET item == allLinks[index + 1]
       IN IF Falsy(Get(item, "url")) \/ item.url \in seen
            THEN LinkAnchors(allLinks, index + 1, seen)
            ELSE <<LinkAnchor(item, index)>>
                   \o LinkAnchors(allLinks, index + 1, seen \cup {item.url})

\* createLinkList(doc): the anchors of the card's link list
createLinkList(doc) ==
  LinkAnchors(ListOf(doc, "links") \o ListOf(doc, "attachments"), 0, {})

\* the anchors of the cards on the page; a hidden list cannot be clicked
VisibleAnchors ==
  IF elements.listHidden THEN {}
  ELSE UNION {{createLinkList(state.filtered[n])[k] :
                 k \in 1..Len(createLinkList(state.filtered[n]))} :
              n \in 1..Len(state.filtered)}

ModifierKeys == {"meta", "ctrl", "shift", "alt"}

\* variant: the modifier keys are not looked at
HasModifier_Ignored(keys) == FALSE

\* line 393
HasModifier(keys) == keys # {}

\* the click event on the anchor with the keys held
ClickEvent(anchor, keys) ==
  [kind |-> "link", target |-> anchor, keys |-> keys, defaultPrevented |-> FALSE]

\* lines 383-396: a click on an anchor of a card with the keys held; both
\* click listeners of the document run, no card is inside a close control
ClickLink(anchor, keys) ==
  /\ IF ~anchor.download \/ HasModifier(keys)
       THEN /\ lastClick' = ClickEvent(anchor, keys)
            /\ UNCHANGED preview
       ELSE /\ lastClick' = [ClickEvent(anchor, keys) EXCEPT !.defaultPrevented = TRUE]
            /\ preview' = showPreview(preview, anchor.href, trim(anchor.text))
  /\ lastToggleRejected' = FALSE
  /\ UNCHANGED <<state, elements, statusCheckboxes, loadPc>>

\* lines 383-388: a click on (or inside) an element that carries data-close
ClickClose ==
  /\ preview' = closePreview(preview)
  /\ lastClick' = [NoClick EXCEPT !.kind = "close"]
  /\ lastToggleRejected' = FALSE
  /\ UNCHANGED <<state, elements, statusCheckboxes, loadPc>>

\* lines 398-400: Escape pressed anywhere but in the search box
KeyEscape ==
  /\ preview' = closePreview(preview)
  /\ lastToggleRejected' = FALSE
  /\ lastClick' = NoClick
  /\ UNCHANGED <<state, elements, statusCheckboxes, loadPc>>

\* a course whose detail page gave a .PDF?x link and two verified downloads
PreviewCourse ==
  [page |-> 2, credits |-> NoCredits,
   attachments |-> fetchCourseDetail(DocDownloads, <<TRUE, TRUE, TRUE>>).attachments]
    @@ ParseRow(RowLater)[1]

PreviewPayloads ==
  { [courses |-> SnapshotCourses \o <<PreviewCourse>>, updatedAt |-> "stamp"],
    [courses |-> <<PreviewCourse>>, updatedAt |-> "stamp"] }

\* ------------------------------------------------------------------ specifications
\* The page in a browser: the scraper is not running.
Init ==
  /\ ClientStart
  /\ ScraperStart
  /\ maxPages = MAX_PAGES
  /\ FnStart

Next ==
  \/ \E payload \in Payloads, t \in ClientInstants :
       LoadSucceeds(payload, t) /\ NotAClick /\ UNCHANGED <<scrapeVars, fnVars>>
  \/ LoadFails /\ NotAClick /\ UNCHANGED <<scrapeVars, fnVars>>
  \/ \E v \in CheckboxValues :
       StatusChange(v) /\ NotAClick /\ UNCHANGED <<scrapeVars, fnVars>>
  \/ CreditClick /\ UNCHANGED <<scrapeVars, fnVars>>
  \/ \E raw \in SearchTexts :
       SearchInput(raw) /\ NotAClick /\ UNCHANGED <<scrapeVars, fnVars>>
  \/ SearchEscape /\ UNCHANGED <<scrapeVars, fnVars>>
  \/ \E key \in SortKeys : SortChange(key) /\ NotAClick /\ UNCHANGED <<scrapeVars, fnVars>>
  \/ ClearFilters /\ UNCHANGED <<scrapeVars, fnVars>>

Spec == Init /\ [][Next]_vars

\* One run of the scraper: no page is open.
ScrapeInit ==
  /\ ScraperStart
  /\ ClientStart
  /\ FnStart

ScrapeNext ==
  \/ FetchPage /\ UNCHANGED <<clientVars, fnVars>>
  \/ \E resp \in PageResponses : PageResponse(resp) /\ UNCHANGED <<clientVars, fnVars>>
  \/ PageSleepDone /\ UNCHANGED <<clientVars, fnVars>>
  \/ Tick /\ UNCHANGED <<clientVars, fnVars>>
  \/ Elapse /\ UNCHANGED <<clientVars, fnVars>>
  \/ EnrichCourse /\ UNCHANGED <<clientVars, fnVars>>
  \/ DetailResponse /\ UNCHANGED <<clientVars, fnVars>>
  \/ ProbeHead /\ UNCHANGED <<clientVars, fnVars>>
  \/ \E outcome \in HeadOutcomes : HeadResponse(outcome) /\ UNCHANGED <<clientVars, fnVars>>
  \/ ProbeGet /\ UNCHANGED <<clientVars, fnVars>>
  \/ \E outcome \in GetOutcomes : GetResponse(outcome) /\ UNCHANGED <<clientVars, fnVars>>
  \/ DetailSleepDone /\ UNCHANGED <<clientVars, fnVars>>
  \/ WriteOutput /\ UNCHANGED <<clientVars, fnVars>>

ScrapeSpec == ScrapeInit /\ [][ScrapeNext]_vars

\* The functions called one at a time: neither program is running.
FnInit ==
  /\ FnStart
  /\ ClientStart
  /\ ScraperStart
  /\ maxPages = MAX_PAGES

FnNext ==
  \/ CallFetchCourseDetail /\ UNCHANGED <<clientVars, scrapeVars>>
  \/ CallParseDate /\ UNCHANGED <<clientVars, scrapeVars>>
  \/ CallEnrichDocument /\ UNCHANGED <<clientVars, scrapeVars>>
  \/ CallParseRow /\ UNCHANGED <<clientVars, scrapeVars>>
  \/ CallDedupeLinks /\ UNCHANGED <<clientVars, scrapeVars>>
  \/ CallRoundTrip /\ UNCHANGED <<clientVars, scrapeVars>>
  \/ CallSortDocuments /\ UNCHANGED <<clientVars, scrapeVars>>
  \/ CallExtractCredits /\ UNCHANGED <<clientVars, scrapeVars>>
  \/ CallParseCourses /\ UNCHANGED <<clientVars, scrapeVars>>
  \/ Return /\ UNCHANGED <<clientVars, scrapeVars>>

FnSpec == FnInit /\ [][FnNext]_vars

\* The page in a browser, the user following links and closing previews.
PreviewNext ==
  \/ \E payload \in PreviewPayloads, t \in ClientInstants :
       LoadSucceeds(payload, t) /\ NotAClick /\ UNCHANGED <<scrapeVars, fnVars>>
  \/ \E raw \in SearchTexts :
       SearchInput(raw) /\ NotAClick /\ UNCHANGED <<scrapeVars, fnVars>>
  \/ SearchEscape /\ UNCHANGED <<scrapeVars, fnVars>>
  \/ \E anchor \in VisibleAnchors, keys \in SUBSET ModifierKeys :
       ClickLink(anchor, keys) /\ UNCHANGED <<scrapeVars, fnVars>>
  \/ ClickClose /\ UNCHANGED <<scrapeVars, fnVars>>
  \/ KeyEscape /\ UNCHANGED <<scrapeVars, fnVars>>

PreviewSpec == Init /\ [][PreviewNext]_vars

\* scrapeCourses alone, every request it awaits being answered and every
\* timer it sets firing.
PagingRun ==
  \/ FetchPage /\ UNCHANGED <<clientVars, fnVars>>
  \/ \E resp \in PageResponses : PageResponse(resp) /\ UNCHANGED <<clientVars, fnVars>>
  \/ Elapse /\ UNCHANGED <<clientVars, fnVars>>
  \/ PageSleepDone /\ UNCHANGED <<clientVars, fnVars>>

PagingNext ==
  \/ PagingRun
  \/ Tick /\ UNCHANGED <<clientVars, fnVars>>

PagingSpec == ScrapeInit /\ [][PagingNext]_vars /\ WF_vars(PagingRun)

\* ------------------------------------------------------------------ client claims

\* C1: the set of accepted statuses is never empty, whatever status
\* checkboxes were toggled and however often the filters were cleared.
C1_StatusesNeverEmpty == state.filters.statuses # {}

\* the only accepted status, one that is not a default, was just unchecked
\* and the handler rejected it
C1_Witness ==
  /\ lastToggleRejected
  /\ state.filters.statuses = {"expired"}

\* C2: unchecking the checkbox of the only accepted status changes nothing:
\* the set keeps that one member, the checkbox is checked again, and the
\* search text, the sort key, the credit toggle, state.filtered and what is
\* on the page are as before.
C2_LastStatusStays ==
  [][\A v \in CheckboxValues :
       (statusCheckboxes[v] /\ state.filters.statuses = {v} /\ StatusChange(v)) =>
         /\ state' = state
         /\ statusCheckboxes' = statusCheckboxes
         /\ elements' = elements]_vars

\* such a toggle was rejected with courses loaded, some of them listed, a
\* search text, a sort key other than the default and the credit toggle on
C2_Witness ==
  /\ lastToggleRejected
  /\ loadPc = "loaded"
  /\ state.filtered # <<>>
  /\ state.filters.search # <<>>
  /\ state.filters.sort # "deadline-asc"
  /\ state.filters.hasCreditsOnly

\* C3: once the load has failed, the status line shows the load-failure
\* message with the error styling, whatever the user does afterwards, and the
\* load is not tried again.
C3_LoadFailureStays ==
  loadPc = "failed" =>
    /\ elements.status = StatusLine("loadFailed", 0, 0)
    /\ elements.statusError

\* text holds query, letter case set aside
ContainsIgnoringCase(text, query) ==
  \E i \in 0..(Len(text) - Len(query)) :
    toLowerCase(SubSeq(text, i + 1, i + Len(query))) = toLowerCase(query)

RECURSIVE LabelsAndUrls(_)
\* the labels and urls of a list of links, a space between any two
LabelsAndUrls(list) ==
  IF list = <<>> THEN <<>>
  ELSE TextOf(Head(list), "label") \o <<" ">> \o TextOf(Head(list), "url")
         \o (IF Len(list) = 1 THEN <<>> ELSE <<" ">> \o LabelsAndUrls(Tail(list)))

\* the three predicates a listed record satisfies
PassesFilters(doc, filters) ==
  /\ \/ filters.search = <<>>
     \/ ContainsIgnoringCase(TextOf(doc, "title"), filters.search)
     \/ ContainsIgnoringCase(TextOf(doc, "time"), filters.search)
     \/ ContainsIgnoringCase(
          LabelsAndUrls(ListOf(doc, "links") \o ListOf(doc, "attachments")),
          filters.search)
     \/ ContainsIgnoringCase(TextOf(doc, "date"), filters.search)
     \/ ContainsIgnoringCase(TextOf(doc, "deadline"), filters.search)
  /\ doc.deadlineCategory \in filters.statuses
  /\ filters.hasCreditsOnly =>
       ("credits" \in DOMAIN doc /\ ~doc.credits.isNull /\ doc.credits.milli > 0)

Occurrences(list, x) == Cardinality({n \in 1..Len(list) : list[n] = x})

PageRequests == SelectSeq(requests, LAMBDA r : r.kind = "page")

\* the indexes of the requests that have settled
Settled == 1..Len(responses)

\* the records the pages received so far yield, in order
RECURSIVE Collected(_)
Collected(n) ==
  IF n = 0 THEN <<>>
  ELSE Collected(n - 1) \o WithPage(pagesSeen[n], n)

Yield(n) == Len(pagesSeen[n])

HasAttachments(record) ==
  "attachments" \in DOMAIN record /\ record.attachments # <<>>

\* C4: once a listing page has answered with a non-success status, the run
\* is over with exit code 1: that page was requested once and is the last
\* request of the run, no detail page or probe was requested, and
\* courses.json still holds the previous snapshot.
C4_PageFailureAborts ==
  \A j \in Settled :
    (requests[j].kind = "page" /\ responses[j] = "notOk") =>
      /\ pc = "failed"
      /\ exitCode = 1
      /\ error = [kind |-> "page", page |-> requests[j].page]
      /\ j = Len(requests)
      /\ \A k \in 1..Len(requests) :
           /\ requests[k].kind = "page"
           /\ (k # j => requests[k].page < requests[j].page)
      /\ file = OldSnapshot

\* a page fails after earlier pages of the run yielded records
C4_Witness ==
  /\ pc = "failed"
  /\ Len(courses) > 0
  /\ responses[Len(responses)] = "notOk"

\* C5: a failed detail fetch does not stop the run: the record is emitted
\* with credits = null, every enriched record is the collected record of the
\* same position, the process never exits on a detail failure, and a
\* finished run has enriched every collected record and written them.
C5_DetailFailureTolerated ==
  /\ Len(enriched) <= Len(courses)
  /\ \A i \in 1..Len(enriched) :
       \A k \in DOMAIN courses[i] : enriched[i][k] = courses[i][k]
  /\ \A j \in Settled :
       (requests[j].kind = "detail" /\ responses[j] # "ok") =>
         /\ pc # "failed"
         /\ requests[j].idx <= Len(enriched) =>
              enriched[requests[j].idx].credits = NoCredits
  /\ pc = "failed" => error.kind \in {"page", "empty"}
  /\ pc = "done" =>
       /\ Len(enriched) = Len(courses)
       /\ file.courses = enriched

\* a run is done although a detail fetch failed for a record that is not
\* the last one
C5_Witness ==
  /\ pc = "done"
  /\ \E j \in Settled :
       /\ requests[j].kind = "detail"
       /\ responses[j] # "ok"
       /\ requests[j].idx < Len(courses)
       /\ file.courses[requests[j].idx].credits = NoCredits

\* C6: listing pages are requested in the order 1, 2, 3, ...; no page is
\* requested after one that yielded fewer than 10 records (zero included);
\* the collected records are those of all the pages received, a short page's
\* included; and when pages 1 and 2 yield at least 10 records each and page 3
\* none, page 3 is the last page requested and the collected records are
\* those of pages 1 and 2, whatever the ceiling.
C6_PagingStops ==
  /\ \A n \in 1..Len(PageRequests) : PageRequests[n].page = n
  /\ \A n \in 1..Len(pagesSeen) :
       Yield(n) < SHORT_PAGE_ROWS => Len(PageRequests) = n
  /\ pc \notin {"pageWait"} => courses = Collected(Len(pagesSeen))
  /\ (/\ Len(pagesSeen) >= 3
      /\ Yield(1) >= SHORT_PAGE_ROWS
      /\ Yield(2) >= SHORT_PAGE_ROWS
      /\ Yield(3) = 0) =>
       /\ Len(PageRequests) = 3
       /\ courses = WithPage(pagesSeen[1], 1) \o WithPage(pagesSeen[2], 2)

\* two full pages, then an empty third one, under a ceiling above 3
C6_Witness ==
  /\ maxPages > 3
  /\ Len(pagesSeen) = 3
  /\ Yield(1) >= SHORT_PAGE_ROWS /\ Yield(2) >= SHORT_PAGE_ROWS /\ Yield(3) = 0
  /\ pc = "done"
  /\ file.total = Yield(1) + Yield(2)

\* C7: a run that collected nothing exits with code 1 and leaves
\* courses.json as it was; courses.json never holds a snapshot with total 0
\* or with no course.
C7_EmptyRunFails ==
  /\ (pc \notin {"fetchPage", "pageWait", "pageSleep"} /\ courses = <<>>) =>
       /\ pc = "failed"
       /\ exitCode = 1
       /\ file = OldSnapshot
  /\ file.total >= 1
  /\ file.courses # <<>>
  /\ file.total = Len(file.courses)

\* the first page came back with no record
C7_Witness ==
  /\ pc = "failed"
  /\ error.kind = "empty"
  /\ Len(pagesSeen) = 1
  /\ responses = <<"ok">>

\* C8: a detail page is requested only for the course being processed, only
\* if that course has a detailUrl, and only if its deadline had not passed
\* when it was processed; a snapshot record with credits or attachments has
\* a detailUrl and was not expired when processed.
C8_EnrichOnlyOpenCourses ==
  /\ \A j \in 1..Len(requests) :
       requests[j].kind = "detail" =>
         /\ requests[j].idx \in 1..Len(courses)
         /\ ~Falsy(courses[requests[j].idx].detailUrl)
         /\ requests[j].url = courses[requests[j].idx].detailUrl
         /\ ~wasExpired[requests[j].idx]
  /\ pc = "done" =>
       \A i \in 1..Len(file.courses) :
         (~file.courses[i].credits.isNull \/ HasAttachments(file.courses[i])) =>
           /\ ~Falsy(file.courses[i].detailUrl)
           /\ ~wasExpired[i]

\* a written snapshot with a record that has a detail link and was skipped
\* as expired, beside a record that was enriched
C8_Witness ==
  /\ pc = "done"
  /\ \E i \in 1..Len(file.courses) :
       /\ wasExpired[i]
       /\ ~Falsy(file.courses[i].detailUrl)
       /\ file.courses[i].credits.isNull
  /\ \E i \in 1..Len(file.courses) : ~file.courses[i].credits.isNull

\* C9: at most one request is in flight.
C9_OneRequestInFlight == Len(inflight) <= 1

\* the GET of a probe is in flight after its HEAD timed out
C9_Witness ==
  /\ pc = "getWait"
  /\ lastProbe.head = "timeout"
  /\ Len(inflight) = 1
  /\ inflight[1].kind = "get"

\* C10: every record of courses.json has a links array and an attachments
\* array.
C10_LinksAndAttachmentsPresent ==
  \A i \in 1..Len(file.courses) :
    {"links", "attachments"} \subseteq DOMAIN file.courses[i]

\* C19: once a run has succeeded, courses.json holds the records this run
\* collected, enriched, in the order of collection, total is their number
\* and the time stamp is this run's; no record of the snapshot that was
\* there before is in it; until then the file is as it was.
C19_SnapshotReplaced ==
  IF pc = "done"
    THEN /\ Len(file.courses) = Len(courses)
         /\ \A i \in 1..Len(file.courses) :
              /\ file.courses[i] = enriched[i]
              /\ \A k \in DOMAIN courses[i] : file.courses[i][k] = courses[i][k]
              /\ \A n \in 1..Len(OldSnapshot.courses) :
                   file.courses[i].title # OldSnapshot.courses[n].title
         /\ file.total = Len(courses)
         /\ file.updatedAt = now
    ELSE file = OldSnapshot

\* a run over two pages replaced the file
C19_Witness ==
  /\ pc = "done"
  /\ Len(pagesSeen) = 2
  /\ file.total > SHORT_PAGE_ROWS
  /\ file.courses[file.total].page = 2

\* C22: a listing page after the first is requested only when the delay
\* set after the page before it was received and parsed has run for WAIT_MS:
\* page requests are issued at the fetch statement only, the process comes
\* to that statement only from a page delay that has run in full and for the
\* next page index, and the delay starts from zero when a page has been
\* parsed and is not cut short.
C22_DelayBetweenPages ==
  [][/\ (requests' # requests /\ requests'[Len(requests')].kind = "page")
          => (pc = "fetchPage" /\ requests'[Len(requests')].page = page)
     /\ (pc # "fetchPage" /\ pc' = "fetchPage")
          => (pc = "pageSleep" /\ elapsed >= WAIT_MS /\ page' = page + 1)
     /\ (pc # "pageSleep" /\ pc' = "pageSleep")
          => (pc = "pageWait" /\ elapsed' = 0 /\ page' = page)
     /\ (pc = "pageSleep" /\ pc' = "pageSleep") => elapsed' >= elapsed]_vars

\* the second listing page has been requested after the delay
C22_Witness ==
  /\ pc = "pageWait"
  /\ page = 2
  /\ Len(requests) = 2
  /\ requests[2].kind = "page"
  /\ elapsed = 0

\* the probe whose answers p records said PDF
SaysPdf(p) == p.head = "pdf" \/ p.get \in {"pdf", "magic"}

\* C24: the attachments a detail page gives before any probe all have a
\* .pdf extension; a probe that settles adds at most the candidate it was
\* made for, and only when it said PDF; a probe that failed, timed out or
\* said anything else adds nothing; and no probe makes the run fail.
C24_AttachmentsVerified ==
  [][/\ (pc = "detailWait" /\ pc' \in {"probe", "detailSleep"}) =>
          LET found == IF pc' = "probe" THEN detail'.attachments
                       ELSE ListOf(courseCopy', "attachments")
          IN \A n \in 1..Len(found) : fileExtPattern(found[n].url)
     /\ (pc \in {"headWait", "getWait"} /\ pc' # pc) =>
          LET c == detail.candidates[cand]
              after == IF pc' = "detailSleep" THEN courseCopy'.attachments
                       ELSE detail'.attachments
          IN /\ pc' \in {"probe", "probeGet", "detailSleep"}
             /\ exitCode' = 0
             /\ Len(after) <= Len(detail.attachments) + 1
             /\ SubSeq(after, 1, Len(detail.attachments)) = detail.attachments
             /\ Len(after) > Len(detail.attachments) =>
                  /\ after[Len(after)].url = c.url
                  /\ SaysPdf(lastProbe')
                  /\ pc' # "probeGet"
             /\ (pc = "getWait" /\ ~SaysPdf(lastProbe')) => after = detail.attachments]_vars

\* a record has an attachment without .pdf extension that a probe confirmed,
\* and the probe of its last candidate timed out twice
C24_Witness ==
  /\ pc = "detailSleep"
  /\ lastProbe.head = "timeout"
  /\ lastProbe.get = "timeout"
  /\ \E n \in 1..Len(ListOf(courseCopy, "attachments")) :
       ~fileExtPattern(courseCopy.attachments[n].url)

\* the requests isPdfUrl has made
ProbeRequests == SelectSeq(requests, LAMBDA r : r.kind \in {"head", "get"})

\* C25: isPdfUrl asks with HEAD first and with the ranged GET only after
\* the HEAD has settled without confirming a PDF; it returns true exactly
\* when the HEAD succeeded with a PDF content type or the GET succeeded with
\* a PDF content type or a %PDF body, false in every other case once both
\* have settled, and the run never fails in it.
C25_ProbeOrderAndAnswer ==
  /\ \A j \in 1..Len(ProbeRequests) :
       ProbeRequests[j].kind = "get" =>
         /\ j > 1
         /\ ProbeRequests[j - 1].kind = "head"
         /\ ProbeRequests[j - 1].url = ProbeRequests[j].url
  /\ pc \in {"probeGet", "getWait"} => lastProbe.head \in HeadOutcomes \ {"pdf"}
  /\ pc = "headWait" => lastProbe = NoProbe
  /\ lastProbe.get # "none" => lastProbe.head \in HeadOutcomes \ {"pdf"}
  /\ lastProbe.returned = "true" <=>
       (lastProbe.head = "pdf" \/ lastProbe.get \in {"pdf", "magic"})
  /\ lastProbe.returned = "false" <=>
       /\ lastProbe.head \in {"other", "notOk", "error", "timeout"}
       /\ lastProbe.get \in {"other", "notOk", "error", "timeout"}
  /\ lastProbe # NoProbe => (pc # "failed" /\ exitCode = 0)

\* isPdfUrl returned true for a body that starts with %PDF after the HEAD
\* was rejected
C25_Witness ==
  /\ lastProbe.head = "error"
  /\ lastProbe.get = "magic"
  /\ lastProbe.returned = "true"

\* ------------------------------------------------------------------ function claims

NoTwoSameUrl(list) ==
  \A i, j \in 1..Len(list) : list[i].url = list[j].url => i = j

\* C11: the attachments fetchCourseDetail returns never hold two entries
\* with the same url.
C11_AttachmentUrlsDistinct ==
  op = "fetchCourseDetail" => NoTwoSameUrl(result.attachments)

\* the day number, in Taipei, of an instant
TaipeiDay(t) == (t + TAIPEI_OFFSET) \div SECONDS_PER_DAY

\* C12: daysUntilDeadline is the number of whole days from today to the
\* deadline date, both taken in Taipei; the category is expired below 0,
\* due-soon from 0 to 7, active above 7; without a deadline date the category
\* is no-deadline and daysUntilDeadline is null.  Today 2024-05-01 and the
\* deadline 2024-05-03 give due-soon and 2.
C12_DeadlineClassification ==
  op = "enrichDocument" =>
    /\ IF result.deadlineDate = NaN
         THEN /\ result.deadlineCategory = "no-deadline"
              /\ result.daysUntilDeadline = NullNumber
         ELSE LET days == TaipeiDay(result.deadlineDate) - TaipeiDay(args.t)
              IN /\ result.daysUntilDeadline = Number(days)
                 /\ result.deadlineCategory =
                      IF days < 0 THEN "expired"
                      ELSE IF days <= 7 THEN "due-soon"
                      ELSE "active"
    /\ (/\ TaipeiDay(args.t) = DaysFromCivil(2024, 5, 1)
        /\ "deadline" \in DOMAIN args.doc
        /\ args.doc.deadline = D_0503) =>
         /\ result.deadlineCategory = "due-soon"
         /\ result.daysUntilDeadline = Number(2)

\* the last second of 2024-05-01 with a deadline seven days later
C12_Witness ==
  /\ op = "enrichDocument"
  /\ args.t = START_INSTANT + 12 * 3600 - 1
  /\ result.daysUntilDeadline = Number(7)
  /\ result.deadlineCategory = "due-soon"

\* the text parseDate parses: trimmed, with / read as -
Normalized(value) == SlashToDash(trim(value))

\* a text of the shape YYYY-MM-DD naming a day of the calendar
IsCalendarDate(text) ==
  /\ Len(text) = 10
  /\ text[5] = "-" /\ text[8] = "-"
  /\ AllDigits(SubSeq(text, 1, 4) \o SubSeq(text, 6, 7) \o SubSeq(text, 9, 10))
  /\ NumVal(SubSeq(text, 6, 7)) \in 1..12
  /\ NumVal(SubSeq(text, 9, 10)) \in
       1..DaysInMonth(NumVal(SubSeq(text, 1, 4)), NumVal(SubSeq(text, 6, 7)))

\* 00:00:00 in Taipei of the day a calendar date names
Midnight(text) ==
  DaysFromCivil(NumVal(SubSeq(text, 1, 4)), NumVal(SubSeq(text, 6, 7)),
                NumVal(SubSeq(text, 9, 10))) * SECONDS_PER_DAY - TAIPEI_OFFSET

\* what parseDate gives when a 10-character date is anchored anchor seconds
\* after midnight in Taipei
ParsesWithAnchor(anchor) ==
  op = "parseDate" =>
    IF Falsy(args.value) THEN result = NaN
    ELSE IF Len(Normalized(args.value)) = 10
      THEN (IF IsCalendarDate(Normalized(args.value))
              THEN result = Midnight(Normalized(args.value)) + anchor
              ELSE result = NaN)
    ELSE result = DateParse(Normalized(args.value))

\* C13 as stated: a 10-character date is parsed as the end of that day
\* (23:59:59) in Taipei, any other non-empty text as given, empty, null and
\* unparseable input as null.
C13_EndOfDayAnchor == ParsesWithAnchor(SECONDS_PER_DAY - 1)

\* C13, amended: a 10-character date is parsed as the start of that day
\* (00:00:00) in Taipei, any other non-empty text as given, empty, null and
\* unparseable input as null.
C13_StartOfDayAnchor == ParsesWithAnchor(0)

\* 2024/05/03 between spaces was parsed as 2024-05-03T00:00:00+08:00
C13_Witness ==
  /\ op = "parseDate"
  /\ Len(args.value) = 12
  /\ result = DaysFromCivil(2024, 5, 3) * SECONDS_PER_DAY - TAIPEI_OFFSET

\* lines 111-131: the detail link, the registration link and the extras a
\* row offers, in that order, NoLink where nothing resolves
RowCandidates(row) ==
  LET detailHref == IF FirstHref(Cell(row, 4)) # Null THEN FirstHref(Cell(row, 4))
                    ELSE FirstHref(Cell(row, 1))
      extras == Cell(row, 6).anchors
  IN << buildLink(Cell(row, 4).text, detailHref, LABEL_DETAIL),
        buildLink(Cell(row, 5).text, FirstHref(Cell(row, 5)), LABEL_REGISTER) >>
       \o [n \in 1..Len(extras) |-> buildLink(extras[n].text, extras[n].href, LABEL_EXTRA)]

\* candidate i resolved and no earlier candidate has its url
IsFirstOfUrl(candidates, i) ==
  /\ candidates[i] # NoLink
  /\ \A j \in 1..(i - 1) : candidates[j].url # candidates[i].url

RECURSIVE FirstOfEachUrl(_, _)
\* the candidates from index i on that are the first of their url, in order
FirstOfEachUrl(candidates, i) ==
  IF i > Len(candidates) THEN <<>>
  ELSE (IF IsFirstOfUrl(candidates, i) THEN <<candidates[i]>> ELSE <<>>)
         \o FirstOfEachUrl(candidates, i + 1)

\* C14: the links of a record are its candidates (detail link, registration
\* link, extras in source order) without those that do not resolve and
\* without those whose url an earlier candidate has, in the candidates'
\* order; no two links of a record have the same url.
C14_LinksKeepFirstOfEachUrl ==
  (op = "parseRow" /\ result # <<>>) =>
    /\ result[1].links = FirstOfEachUrl(RowCandidates(args.row), 1)
    /\ NoTwoSameUrl(result[1].links)

\* the registration link and an extra resolve to the detail page's url and
\* the record keeps the detail link's label for it
C14_Witness ==
  /\ op = "parseRow"
  /\ args.row = RowSame
  /\ Len(result[1].links) = 2
  /\ result[1].links[1] = [label |-> <<"I", "n">>, url |-> URL_D1]

\* C15: de-duplicating the outcome of a de-duplication changes nothing.
C15_DedupeIdempotent ==
  op = "dedupeLinks" => DedupeLinks(result, {}) = result

\* three candidates, two of them dropped
C15_Witness ==
  /\ op = "dedupeLinks"
  /\ Len(args.candidates) = 3
  /\ Len(result) = 1
  /\ NoLink \in {args.candidates[n] : n \in 1..3}

DerivedFields == {"issuedDate", "deadlineDate", "deadlineCategory", "daysUntilDeadline"}

\* C16: a snapshot written and read back holds the same records, member
\* for member, absent members staying absent; the record the client works
\* with has the persisted members unchanged and the four derived ones beside
\* them.
C16_SnapshotRoundTrip ==
  op = "roundTrip" =>
    LET written == args.snapshot.courses
        read == result.payload.courses
    IN /\ Len(read) = Len(written)
       /\ \A n \in 1..Len(written) :
            /\ DOMAIN read[n] = DOMAIN written[n]
            /\ \A k \in DOMAIN written[n] : read[n][k] = written[n][k]
            /\ DOMAIN result.documents[n] = DOMAIN written[n] \cup DerivedFields
            /\ \A k \in DOMAIN written[n] : result.documents[n][k] = written[n][k]
       /\ result.payload.total = args.snapshot.total
       /\ result.payload.source = args.snapshot.source

\* a snapshot holding a record with credits 6.5, one with credits null and
\* one without attachments member went through
C16_Witness ==
  /\ op = "roundTrip"
  /\ \E n \in 1..Len(result.payload.courses) :
       result.payload.courses[n].credits = Credits(6500)
  /\ \E n \in 1..Len(result.payload.courses) :
       /\ result.payload.courses[n].credits = NoCredits
       /\ "attachments" \notin DOMAIN result.payload.courses[n]

\* a may stand before b in a list sorted by the key sort
MayPrecede(a, b, sort) ==
  IF sort \in {"deadline-asc", "deadline-desc"}
    THEN /\ a.deadlineDate = NaN => b.deadlineDate = NaN
         /\ (a.deadlineDate # NaN /\ b.deadlineDate # NaN) =>
              /\ sort = "deadline-asc" => a.deadlineDate <= b.deadlineDate
              /\ sort = "deadline-desc" => a.deadlineDate >= b.deadlineDate
              /\ (a.deadlineDate = b.deadlineDate
                    /\ a.issuedDate # NaN /\ b.issuedDate # NaN) =>
                   a.issuedDate >= b.issuedDate
    ELSE /\ a.issuedDate = NaN => b.issuedDate = NaN
         /\ (a.issuedDate # NaN /\ b.issuedDate # NaN) =>
              /\ sort = "date-asc" => a.issuedDate <= b.issuedDate
              /\ sort = "date-desc" => a.issuedDate >= b.issuedDate

\* C18: sortDocuments returns the records it was given, each as often as
\* given, in the order of the key: by deadline date (ascending or
\* descending) with the records without one last and equal deadlines in
\* descending order of issued date, or by issued date (ascending or
\* descending) with the records without one last.
C18_SortedPermutation ==
  op = "sortDocuments" =>
    /\ Len(result) = Len(args.documents)
    /\ \A d \in SortDocs : Occurrences(result, d) = Occurrences(args.documents, d)
    /\ \A i, j \in 1..Len(result) :
         i < j => MayPrecede(result[i], result[j], args.sort)

\* three records with the same deadline were put in descending order of
\* issued date, the one without issued date included
C18_Witness ==
  /\ op = "sortDocuments"
  /\ args.sort = "deadline-asc"
  /\ Len(result) = 3
  /\ result # args.documents
  /\ \A n \in 1..3 : result[n].deadlineDate = START_INSTANT
  /\ result[1].issuedDate > result[2].issuedDate
  /\ result[3].issuedDate = NaN

\* where the number starts if, at index i of text, the label stands (with
\* or without white space inside it) followed by colons or spaces and a
\* number; 0 otherwise
LabelledNumberAt(text, i) ==
  IF i > Len(text) \/ text[i] # "ZONG" THEN 0
  ELSE LET j == SkipWhile(text, i + 1, WhiteSpace)
           f == IF j <= Len(text) /\ text[j] = "XUE" THEN j + 1 ELSE j
       IN IF f > Len(text) \/ text[f] # "FEN" THEN 0
          ELSE LET k == SkipWhile(text, f + 1, WhiteSpace \cup {"FWCOLON", ":"})
               IN IF k <= Len(text) /\ text[k] \in Digits THEN k ELSE 0

\* the cells and places where a number follows the label
LabelledPlaces(tds) ==
  UNION {{<<n, i>> : i \in {h \in 1..Len(tds[n]) : LabelledNumberAt(tds[n], h) # 0}} :
           n \in 1..Len(tds)}

\* C20: the credits are the number that follows the total-credits label on
\* the page, an integer or a decimal (6 for the label followed by 6, 6.5 for
\* the label followed by 6.5), and null when no number follows the label
\* anywhere on the page.
C20_CreditsFollowLabel ==
  op = "extractCredits" =>
    IF LabelledPlaces(args.tds) = {}
      THEN result = NoCredits
      ELSE \E p \in LabelledPlaces(args.tds) :
             result = CreditValueAt(args.tds[p[1]], LabelledNumberAt(args.tds[p[1]], p[2]))

\* a text of white space only
IsBlank(text) == \A i \in 1..Len(text) : text[i] \in WhiteSpace

\* a row that is to give a record: it has a cell and its first cell has text
IsDataRow(row) == Len(row) > 0 /\ ~IsBlank(row[1].text)

\* the rows after the first that are to give a record, in page order
DataRows(html) ==
  IF html = <<>> THEN <<>> ELSE SelectSeq(Tail(html), IsDataRow)

\* a row none of whose cells holds an anchor
HasNoAnchor(row) == \A i \in 1..Len(row) : row[i].anchors = <<>>

\* one record for each data row after the first row, in page order, with the
\* row's normalized title, date and time, and nothing for the other rows
RecordsFollowRows ==
  LET rows == DataRows(args.html)
  IN /\ Len(result) = Len(rows)
     /\ \A k \in 1..Len(result) :
          /\ result[k].title # <<>>
          /\ result[k].title = cleanText(rows[k][1].text)
          /\ result[k].date = NullIfEmpty(cleanText(Cell(rows[k], 2).text))
          /\ result[k].time = NullIfEmpty(cleanText(Cell(rows[k], 3).text))

\* C21 as stated: parseCourses gives one record, in page order, for each row
\* after the first that has a cell and a non-empty normalized first-cell
\* text, and nothing for other rows; every record has a title; and a record
\* without detail link and without registration link has no links at all.
C21_NoMainLinkNoLinks ==
  op = "parseCourses" =>
    /\ RecordsFollowRows
    /\ \A k \in 1..Len(result) :
         (result[k].detailUrl = Null /\ result[k].registrationUrl = Null)
           => result[k].links = <<>>

\* C21 amended: as above, but it is the row without any link (no anchor in
\* any cell) whose record has links = [] and detailUrl = null.
C21_OneRecordPerTitledRow ==
  op = "parseCourses" =>
    /\ RecordsFollowRows
    /\ \A k \in 1..Len(result) :
         HasNoAnchor(DataRows(args.html)[k])
           => (result[k].links = <<>> /\ result[k].detailUrl = Null)

\* a page of a header, a row of white space and a course without links gave
\* the one record of that course
C21_Witness ==
  /\ op = "parseCourses"
  /\ Len(args.html) = MaxRows
  /\ args.html[2] = SpacerCells
  /\ HasNoAnchor(args.html[3])
  /\ Len(result) = 1
  /\ result[1].links = <<>>
  /\ result[1].detailUrl = Null

\* ------------------------------------------------------------------ client claims, continued

\* a render() has written the status line, or the load has rendered
HasRendered ==
  loadPc = "loaded" \/ elements.status.kind \in {"noData", "noMatch", "showing"}

C26_EmptyResultIsNoError ==
  /\ (loadPc = "loaded" /\ state.documents # <<>> /\ state.filtered = <<>>) =>
       /\ elements.status = StatusLine("noMatch", 0, 0)
       /\ ~elements.statusError
       /\ elements.listHidden
  /\ (loadPc = "loaded" /\ state.filtered # <<>>) =>
       elements.status.kind = "showing"
  /\ elements.statusError => loadPc = "failed"
  /\ elements.statusError <=> elements.status.kind = "loadFailed"

\* the loaded records all fail a search text
C26_Witness ==
  /\ loadPc = "loaded"
  /\ Len(state.documents) > 1
  /\ state.filters.search # <<>>
  /\ state.filtered = <<>>
  /\ elements.status.kind = "noMatch"
  /\ elements.listHidden

\* the url a viewer address hands to the viewer
RECURSIVE PercentDecoded(_)
PercentDecoded(s) ==
  IF s = <<>> THEN <<>>
  ELSE IF Head(s) = "%" /\ Len(s) >= 3
    THEN <<CHOOSE c \in DOMAIN PercentCode : PercentCode[c] = SubSeq(s, 1, 3)>>
           \o PercentDecoded(SubSeq(s, 4, Len(s)))
  ELSE <<Head(s)>> \o PercentDecoded(Tail(s))

\* the step is the click lastClick' tells of
IsClickStep ==
  /\ lastClick'.kind = "link"
  /\ ClickLink(lastClick'.target, lastClick'.keys)

\* C27: a click without modifier key on an anchor tagged as download cancels
\* the navigation and opens the modal, whose frame is the external viewer
\* with that anchor's url and whose download link is that url; the click
\* with a modifier key held, like the click on any other anchor, changes
\* nothing of the modal and cancels nothing; Escape, in the search box or
\* anywhere else, and a click on a close control leave the modal hidden and
\* empty.
C27_PreviewOpensAndCloses ==
  [][/\ IsClickStep =>
          IF lastClick'.target.download /\ lastClick'.keys = {}
            THEN /\ lastClick'.defaultPrevented
                 /\ ~preview'.hidden
                 /\ ~preview'.ariaHidden
                 /\ SubSeq(preview'.content.src, 1, Len(PREVIEW_VIEWER_BASE))
                      = PREVIEW_VIEWER_BASE
                 /\ PercentDecoded(SubSeq(preview'.content.src,
                                          Len(PREVIEW_VIEWER_BASE) + 1,
                                          Len(preview'.content.src)))
                      = lastClick'.target.href
                 /\ preview'.downloadHref = lastClick'.target.href
            ELSE /\ ~lastClick'.defaultPrevented
                 /\ preview' = preview
     /\ (KeyEscape \/ ClickClose \/ SearchEscape) =>
          /\ preview'.hidden
          /\ preview'.ariaHidden
          /\ preview'.content = Null]_vars

\* the preview of a verified download without .pdf extension is open after
\* another click, with Shift held, left an earlier preview as it was
C27_Witness ==
  /\ ~preview.hidden
  /\ lastClick.kind = "link"
  /\ lastClick.keys = {"shift"}
  /\ ~lastClick.defaultPrevented
  /\ lastClick.target.href # preview.downloadHref
  /\ preview.downloadHref = BASE_DIR \o <<"g", "2">>
  /\ preview.content.src
       = PREVIEW_VIEWER_BASE
           \o <<"h", "%", "3", "A", "k", "%", "2", "F", "g", "2">>

\* ------------------------------------------------------------------ paging claims
\* scrapeCourses has returned or thrown
ScrapeOver == pc \notin {"fetchPage", "pageWait", "pageSleep"}

\* how many records the first n pages received gave
RECURSIVE YieldUpTo(_)
YieldUpTo(n) == IF n = 0 THEN 0 ELSE YieldUpTo(n - 1) + Len(pagesSeen[n])

\* the page the i-th collected record was extracted from
PageOfRecord(i) ==
  CHOOSE n \in 1..Len(pagesSeen) : YieldUpTo(n - 1) < i /\ i <= YieldUpTo(n)

\* C28: scrapeCourses is over after finitely many steps when its requests are
\* answered; it never makes more than MAX_PAGES listing-page requests, the
\* n-th of them being for page n; every collected record is a record of one
\* of the pages received with that page's index as its page field, and the
\* page fields never decrease along the list.
C28_PagingTerminates ==
  /\ [](/\ Len(PageRequests) <= maxPages
        /\ maxPages <= MAX_PAGES
        /\ \A n \in 1..Len(PageRequests) : PageRequests[n].page = n
        /\ Len(courses) = YieldUpTo(Len(pagesSeen))
        /\ \A i \in 1..Len(courses) :
             /\ courses[i].page = PageOfRecord(i)
             /\ [k \in DOMAIN courses[i] \ {"page"} |-> courses[i][k]]
                  = pagesSeen[PageOfRecord(i)][i - YieldUpTo(PageOfRecord(i) - 1)]
        /\ \A i \in 1..(Len(courses) - 1) : courses[i].page <= courses[i + 1].page)
  /\ <>ScrapeOver

\* the loop ended by its ceiling: MAX_PAGES full pages, one request each
C28_Witness ==
  /\ ScrapeOver
  /\ Len(PageRequests) = MAX_PAGES
  /\ Len(pagesSeen) = MAX_PAGES
  /\ courses[1].page = 1
  /\ courses[Len(courses)].page = MAX_PAGES
  /\ Len(courses) >= MAX_PAGES * SHORT_PAGE_ROWS

\* ------------------------------------------------------------------ clear-filters claims
\* C29: a click on clear-filters leaves the filters at their defaults (no
\* query, sort deadline-asc, statuses due-soon and active, credits-only off)
\* and state.documents as it was; a click made when the filters are at their
\* defaults, as the second of two clicks is, changes nothing of the state,
\* the controls or the page.
C29_ClearFiltersResets ==
  [][ClearFilters =>
       /\ state'.filters = [search |-> <<>>, sort |-> "deadline-asc",
                            statuses |-> {"due-soon", "active"},
                            hasCreditsOnly |-> FALSE]
       /\ state'.documents = state.documents
       /\ (state.filters = state'.filters =>
             UNCHANGED <<state, elements, statusCheckboxes, loadPc, preview>>)]_vars

\* clear-filters has just reset filters that were not the defaults: the
\* page shows records again that the filters had hidden
C29_Witness ==
  /\ lastClick.kind = "clear"
  /\ state.filters = InitialFilters
  /\ Len(state.documents) > Len(state.filtered)
  /\ Len(state.filtered) >= 2
  /\ elements.searchInput = <<>>
  /\ ~elements.listHidden

\* C30: each status checkbox is checked exactly when its value is an accepted
\* status, in every state the page can be in: after a toggle the handler
\* accepted, after one it rejected, and after a click on clear-filters.
C30_CheckboxesFollowStatuses ==
  \A v \in CheckboxValues : statusCheckboxes[v] <=> v \in state.filters.statuses

\* the user unchecked the last accepted status, which clear-filters had not
\* put there, and the handler checked it again
C30_Witness ==
  /\ lastToggleRejected
  /\ loadPc = "loaded"
  /\ state.filters.statuses = {"no-deadline"}
  /\ statusCheckboxes["no-deadline"]
  /\ \A v \in DEFAULT_STATUS_VALUES : ~statusCheckboxes[v]

====
